---- MODULE Spec2Model ----
(***************************************************************************)
(* A model of switchr's aggregation core: the project list (models.rs),    *)
(* the on-disk cache with its atomic write protocol (cache.rs) and the     *)
(* scan coordinator (scanner/mod.rs).                                      *)
(*                                                                         *)
(* Strings are sequences of byte codes, Option<T> is a sequence of length  *)
(* at most one (None == <<>>, Some(v) == <<v>>), and a file's content is   *)
(* the sequence of tokens bincode writes.                                  *)
(***************************************************************************)
EXTENDS Integers, Sequences, FiniteSets, TLC

\* ------------------------------------------------------------------ bounds
MaxLen == 3        \* longest ProjectList built in SpecModels
MaxTime == 4       \* the clock stops advancing at this tick (SpecLoad)
MaxWriteTime == 2  \* the clock stops advancing at this tick (Spec)
TicksPerSec == 2   \* clock ticks in one second (the clock is finer than a second)
MaxTtl == 2        \* largest configured cache_ttl_seconds
MaxFaults == 3     \* I/O failures the environment injects in one run
U64Range == 16     \* the number of values of the (scaled-down) u64 of is_cache_valid
TimeoutPolls == 2  \* the timeout of the GitHub fetch, in polling intervals
PipeCapacity == 1  \* output lines a pipe holds before a write to it blocks
MaxTreeDepth == 4  \* deepest directory of a tree given to scan_directory
MaxProjects == 3   \* longest of the short project lists given to the picker
MaxInput == 2      \* longest search input typed into the picker

\* ------------------------------------------------------- Option and strings
None == <<>>
Some(v) == <<v>>
IsSome(o) == Len(o) = 1
Unwrap(o) == o[1]

\* A byte that cannot occur in UTF-8 text (a path of the file system may
\* hold it, a String never does).
InvalidUtf8Byte == 255

IsUtf8(s) == \A i \in 1..Len(s) : s[i] # InvalidUtf8Byte

\* str::cmp: lexicographic comparison of the bytes; -1 Less, 0 Equal, 1 Greater.
RECURSIVE StrCmp(_, _)
StrCmp(s, t) ==
    IF s = <<>> /\ t = <<>> THEN 0
    ELSE IF s = <<>> THEN -1
    ELSE IF t = <<>> THEN 1
    ELSE IF s[1] < t[1] THEN -1
    ELSE IF s[1] > t[1] THEN 1
    ELSE StrCmp(Tail(s), Tail(t))

\* ----------------------------------------------------------------- Project
ProjectSource == {"Local", "Cursor", "GitHub", "GitLab"}

new_local(name, path) ==
    [name |-> name, path |-> path, last_modified |-> None, source |-> "Local",
     github_url |-> None, gitlab_url |-> None]

new_cursor(name, path) ==
    [name |-> name, path |-> path, last_modified |-> None, source |-> "Cursor",
     github_url |-> None, gitlab_url |-> None]

\* The URL is not kept.
new_github_NoUrl(name, path, url) ==
    [name |-> name, path |-> path, last_modified |-> None, source |-> "GitHub",
     github_url |-> None, gitlab_url |-> None]

new_github(name, path, url) ==
    [name |-> name, path |-> path, last_modified |-> None, source |-> "GitHub",
     github_url |-> Some(url), gitlab_url |-> None]

new_gitlab(name, path, url) ==
    [name |-> name, path |-> path, last_modified |-> None, source |-> "GitLab",
     github_url |-> None, gitlab_url |-> Some(url)]

with_last_modified(p, timestamp) == [p EXCEPT !.last_modified = Some(timestamp)]

\* ------------------------------------------------------------- ProjectList
\* Timestamps are compared oldest first.
SortCmp_Ascending(a, b) ==
    IF IsSome(a.last_modified) /\ IsSome(b.last_modified)
    THEN (IF Unwrap(a.last_modified) < Unwrap(b.last_modified) THEN -1
          ELSE IF Unwrap(a.last_modified) > Unwrap(b.last_modified) THEN 1
          ELSE 0)
    ELSE IF IsSome(a.last_modified) THEN -1
    ELSE IF IsSome(b.last_modified) THEN 1
    ELSE StrCmp(a.name, b.name)

\* Equal timestamps compare Less.
SortCmp_TiesAreLess(a, b) ==
    IF IsSome(a.last_modified) /\ IsSome(b.last_modified)
    THEN (IF Unwrap(b.last_modified) > Unwrap(a.last_modified) THEN 1 ELSE -1)
    ELSE IF IsSome(a.last_modified) THEN -1
    ELSE IF IsSome(b.last_modified) THEN 1
    ELSE StrCmp(a.name, b.name)

\* The comparator of sort_by_last_modified: -1 Less, 0 Equal, 1 Greater.
SortCmp(a, b) ==
    IF IsSome(a.last_modified) /\ IsSome(b.last_modified)
    THEN (IF Unwrap(b.last_modified) < Unwrap(a.last_modified) THEN -1
          ELSE IF Unwrap(b.last_modified) > Unwrap(a.last_modified) THEN 1
          ELSE 0)
    ELSE IF IsSome(a.last_modified) THEN -1
    ELSE IF IsSome(b.last_modified) THEN 1
    ELSE StrCmp(a.name, b.name)

\* slice::sort_by is a stable sort: x goes after every element that does not
\* compare Greater than it.
\* An entry goes in front of the entries it ties with.
RECURSIVE InsertSorted_BeforeTies(_, _)
InsertSorted_BeforeTies(sorted, x) ==
    IF sorted = <<>> THEN <<x>>
    ELSE IF SortCmp(x, sorted[1]) <= 0 THEN <<x>> \o sorted
    ELSE <<sorted[1]>> \o InsertSorted_BeforeTies(Tail(sorted), x)

RECURSIVE InsertSorted(_, _)
InsertSorted(sorted, x) ==
    IF sorted = <<>> THEN <<x>>
    ELSE IF SortCmp(x, sorted[1]) < 0 THEN <<x>> \o sorted
    ELSE <<sorted[1]>> \o InsertSorted(Tail(sorted), x)

RECURSIVE SortFrom(_, _)
SortFrom(sorted, rest) ==
    IF rest = <<>> THEN sorted
    ELSE SortFrom(InsertSorted(sorted, rest[1]), Tail(rest))

sort_by_last_modified(projects) == SortFrom(<<>>, projects)

local_paths(projects) ==
    {projects[i].path : i \in {j \in 1..Len(projects) : projects[j].source = "Local"}}

\* Only the first entry found is marked.
to_remove_FirstOnly(projects) ==
    LET all == {i \in 1..Len(projects) :
                    projects[i].source = "GitHub" /\ projects[i].path \in local_paths(projects)}
    IN  {i \in all : \A j \in all : i <= j}

\* Every entry that is not Local is marked on a Local path.
to_remove_AnySource(projects) ==
    {i \in 1..Len(projects) :
        projects[i].source # "Local" /\ projects[i].path \in local_paths(projects)}

\* The entries deduplicate removes.
to_remove(projects) ==
    {i \in 1..Len(projects) :
        projects[i].source = "GitHub" /\ projects[i].path \in local_paths(projects)}

RECURSIVE RemoveIndices(_, _, _)
RemoveIndices(projects, idx, i) ==
    IF i > Len(projects) THEN <<>>
    ELSE (IF i \in idx THEN <<>> ELSE <<projects[i]>>)
         \o RemoveIndices(projects, idx, i + 1)

deduplicate(projects) == RemoveIndices(projects, to_remove(projects), 1)

\* ------------------------------------------------------------ bincode format
\* What bincode::serialize / bincode::deserialize do to a Vec<Project>: a
\* sequence length and a string length are one token each, a string is its
\* length and its bytes, an Option is a tag 0 or 1 before the value, the
\* enum is its variant index, and a DateTime<Utc> travels as the text chrono
\* formats and parses again.
VariantIndex(source) ==
    CASE source = "Local" -> 0
      [] source = "Cursor" -> 1
      [] source = "GitHub" -> 2
      [] source = "GitLab" -> 3

VariantOf(index) ==
    CASE index = 0 -> "Local"
      [] index = 1 -> "Cursor"
      [] index = 2 -> "GitHub"
      [] index = 3 -> "GitLab"

DigitZero == 48

\* The decimal text of a timestamp.
RECURSIVE FormatTime(_)
FormatTime(t) ==
    IF t < 10 THEN <<DigitZero + t>>
    ELSE FormatTime(t \div 10) \o <<DigitZero + (t % 10)>>

IsDigits(s) == s # <<>> /\ \A i \in 1..Len(s) : s[i] \in DigitZero..(DigitZero + 9)

RECURSIVE ParseTime(_)
ParseTime(s) ==
    IF Len(s) = 1 THEN s[1] - DigitZero
    ELSE 10 * ParseTime(SubSeq(s, 1, Len(s) - 1)) + (s[Len(s)] - DigitZero)

SerStr(s) == <<Len(s)>> \o s

SerOptStr(o) == IF IsSome(o) THEN <<1>> \o SerStr(Unwrap(o)) ELSE <<0>>

\* The timestamp is left out of the encoding.
SerOptTime_Dropped(o) == <<0>>

SerOptTime(o) == IF IsSome(o) THEN <<1>> \o SerStr(FormatTime(Unwrap(o))) ELSE <<0>>

SerializeProject(p) ==
    SerStr(p.name) \o SerStr(p.path) \o SerOptTime(p.last_modified)
        \o <<VariantIndex(p.source)>> \o SerOptStr(p.github_url) \o SerOptStr(p.gitlab_url)

RECURSIVE SerializeSeq(_)
SerializeSeq(projects) ==
    IF projects = <<>> THEN <<>>
    ELSE SerializeProject(projects[1]) \o SerializeSeq(Tail(projects))

\* serde refuses a PathBuf that is not UTF-8: serialization is an Err.
Serializable(projects) == \A i \in 1..Len(projects) : IsUtf8(projects[i].path)

Serialize(projects) == <<Len(projects)>> \o SerializeSeq(projects)

\* A parse step yields [ok, val, rest]; ParseFail is the refusal.
ParseFail == [ok |-> FALSE, val |-> <<>>, rest |-> <<>>]
ParseOk(v, rest) == [ok |-> TRUE, val |-> v, rest |-> rest]

ReadStr(b) ==
    IF b = <<>> THEN ParseFail
    ELSE IF b[1] < 0 \/ Len(b) - 1 < b[1] THEN ParseFail
    ELSE LET s == SubSeq(b, 2, b[1] + 1)
         IN  IF IsUtf8(s) THEN ParseOk(s, SubSeq(b, b[1] + 2, Len(b))) ELSE ParseFail

ReadOptStr(b) ==
    IF b = <<>> THEN ParseFail
    ELSE IF b[1] = 0 THEN ParseOk(None, Tail(b))
    ELSE IF b[1] = 1
         THEN LET r == ReadStr(Tail(b))
              IN  IF r.ok THEN ParseOk(Some(r.val), r.rest) ELSE ParseFail
    ELSE ParseFail

ReadOptTime(b) ==
    LET r == ReadOptStr(b)
    IN  IF ~r.ok THEN ParseFail
        ELSE IF r.val = None THEN r
        ELSE IF IsDigits(Unwrap(r.val))
             THEN ParseOk(Some(ParseTime(Unwrap(r.val))), r.rest)
        ELSE ParseFail

ReadSource(b) ==
    IF b = <<>> THEN ParseFail
    ELSE IF b[1] \in 0..3 THEN ParseOk(VariantOf(b[1]), Tail(b))
    ELSE ParseFail

ReadProject(b) ==
    LET n == ReadStr(b) IN
    IF ~n.ok THEN ParseFail ELSE
    LET p == ReadStr(n.rest) IN
    IF ~p.ok THEN ParseFail ELSE
    LET t == ReadOptTime(p.rest) IN
    IF ~t.ok THEN ParseFail ELSE
    LET s == ReadSource(t.rest) IN
    IF ~s.ok THEN ParseFail ELSE
    LET gh == ReadOptStr(s.rest) IN
    IF ~gh.ok THEN ParseFail ELSE
    LET gl == ReadOptStr(gh.rest) IN
    IF ~gl.ok THEN ParseFail ELSE
    ParseOk([name |-> n.val, path |-> p.val, last_modified |-> t.val,
             source |-> s.val, github_url |-> gh.val, gitlab_url |-> gl.val],
            gl.rest)

RECURSIVE ReadProjects(_, _, _)
ReadProjects(b, n, acc) ==
    IF n = 0 THEN ParseOk(acc, b)
    ELSE LET r == ReadProject(b)
         IN  IF r.ok THEN ReadProjects(r.rest, n - 1, Append(acc, r.val)) ELSE ParseFail

\* bincode::deserialize::<Vec<Project>>: trailing bytes are allowed.
Deserialize(b) ==
    IF b = <<>> THEN ParseFail
    ELSE IF b[1] < 0 THEN ParseFail
    ELSE ReadProjects(Tail(b), b[1], <<>>)


\* ===================================================================== state
VARIABLES
    \* models.rs: a ProjectList under construction and the operation applied last
    plist, prev, lastOp,
    \* the system clock (SystemTime::now), in ticks; Cache.ttl_seconds
    now, ttl_seconds,
    \* the cache directory: file name -> the file's content and mtime
    dir,
    \* save_projects callers: their process id and the position of each call
    pid, writer,
    \* failures the environment has injected so far
    faults,
    \* a load_projects / is_cache_valid caller
    reader,
    \* scanner/mod.rs: the scanners a ScanManager holds, the threads one
    \* scan_all_verbose call has spawned, and the position of that call
    scanners, handles, scan,
    \* project_manager.rs: a get_projects_with_background_refresh call, the
    \* background thread it spawned, and the channel between them
    refresh, bg, chan,
    \* scanner/github.rs: the position of one GitHubScanner::scan call and the
    \* gh subprocess it waits for
    gh,
    \* invalidate_all callers: the position of each call
    inval,
    \* project_manager.rs: a get_projects_with_cache or get_projects_fresh call
    call,
    \* scanner/local.rs: one scan_directory call on a directory tree
    local,
    \* opener.rs: one open_project call
    opener,
    \* tui.rs: the TuiApp of one run_interactive call
    tui

modelVars == <<plist, prev, lastOp>>
cacheVars == <<now, ttl_seconds, dir, pid, writer, faults, reader>>
scanVars == <<scanners, handles, scan>>
refreshVars == <<refresh, bg, chan>>
ghVars == <<gh>>
invalVars == <<inval>>
callVars == <<call>>
localVars == <<local>>
openerVars == <<opener>>
tuiVars == <<tui>>
vars == <<plist, prev, lastOp, now, ttl_seconds, dir, pid, writer, faults, reader,
          scanners, handles, scan, refresh, bg, chan, gh, inval, call, local, opener, tui>>

\* -------------------------------------------------------- the input universe
ProjNames == {<<1>>, <<2>>}
ProjPaths == {<<1>>, <<2>>}
Urls == {<<7>>}
Times == {1, 2}

BareProjects ==
    {new_local(n, p) : n \in ProjNames, p \in ProjPaths}
        \cup {new_cursor(n, p) : n \in ProjNames, p \in ProjPaths}
        \cup UNION {{new_github(n, p, u) : n \in ProjNames, p \in ProjPaths} : u \in Urls}
        \cup UNION {{new_gitlab(n, p, u) : n \in ProjNames, p \in ProjPaths} : u \in Urls}

Projects == BareProjects \cup {with_last_modified(b, t) : b \in BareProjects, t \in Times}

\* ============================================================== ProjectList
ModelsIdle ==
    /\ plist = <<>>
    /\ prev = <<>>
    /\ lastOp = "new"

\* ProjectList::add_project
AddProject(project) ==
    /\ lastOp \in {"new", "add_project"}
    /\ Len(plist) < MaxLen
    /\ plist' = Append(plist, project)
    /\ lastOp' = "add_project"
    /\ UNCHANGED prev
    /\ UNCHANGED <<cacheVars, scanVars, refreshVars, ghVars, invalVars, callVars, localVars, openerVars, tuiVars>>

\* ProjectList::deduplicate
Deduplicate ==
    /\ lastOp # "new"
    /\ prev' = plist
    /\ plist' = deduplicate(plist)
    /\ lastOp' = "deduplicate"
    /\ UNCHANGED <<cacheVars, scanVars, refreshVars, ghVars, invalVars, callVars, localVars, openerVars, tuiVars>>

\* ProjectList::sort_by_last_modified
SortByLastModified ==
    /\ lastOp # "new"
    /\ prev' = plist
    /\ plist' = sort_by_last_modified(plist)
    /\ lastOp' = "sort_by_last_modified"
    /\ UNCHANGED <<cacheVars, scanVars, refreshVars, ghVars, invalVars, callVars, localVars, openerVars, tuiVars>>


\* ==================================================================== Cache
Writers == {"w1", "w2"}

\* Cache::projects_cache_path
ProjectsCache == <<"sw_projects.cache">>

\* Cache::github_cache_path
GithubCache == <<"sw_github.cache">>

\* The temporary file name of atomic_write: target name, process id, nanoseconds.
TempName(target, process_id, nanos) == target \o <<"tmp", process_id, nanos>>

\* Where an open descriptor's file is: under a name of the directory, or
\* unlinked (removed or replaced while open).
Unlinked == <<"unlinked">>

MaxAttempts == 3
LastSleepAttempt == 2

RECURSIVE Pow2(_)
Pow2(n) == IF n = 0 THEN 1 ELSE 2 * Pow2(n - 1)

\* Duration::as_secs: whole seconds, the fraction dropped.
as_secs(t) == t \div TicksPerSec

DirWithout(d, path) == [n \in DOMAIN d \ {path} |-> d[n]]
DirWith(d, path, file) == [n \in DOMAIN d \cup {path} |-> IF n = path THEN file ELSE d[n]]
NoFiles == [n \in {} |-> 0]

\* A write of chunk at offset 0 of a file holding old.
WriteAt0(old, chunk) == chunk \o SubSeq(old, Len(chunk) + 1, Len(old))

\* The directory after a write through a descriptor.
WriteThrough(d, fd, chunk, time) ==
    IF fd \in DOMAIN d
    THEN [d EXCEPT ![fd] = [data |-> WriteAt0(@.data, chunk), mtime |-> time]]
    ELSE d

\* The descriptors after path is removed (to = Unlinked) or renamed over to.
Moved(wrs, path, to) ==
    [v \in DOMAIN wrs |->
        IF wrs[v].fd = path THEN [wrs[v] EXCEPT !.fd = to]
        ELSE IF wrs[v].fd = to THEN [wrs[v] EXCEPT !.fd = Unlinked]
        ELSE wrs[v]]

IdleWriter ==
    [pc |-> "idle", projects |-> <<>>, data |-> <<>>, attempt |-> 0, calls |-> 0,
     temp_path |-> <<>>, temps |-> <<>>, fd |-> <<>>, slept |-> <<>>, failed_at |-> 0, result |-> "none",
     returned_at |-> 0]

IdleReader ==
    [pc |-> "idle", op |-> "none", existed |-> FALSE, read_now |-> 0, read_mtime |-> 0,
     after_save |-> {}, valid |-> "none", read_ok |-> FALSE, data |-> <<>>,
     result |-> "none", list |-> <<>>]

Invokers == {"i1", "i2"}

IdleInvalidate ==
    [pc |-> "idle", i |-> 1, result |-> "none", removed |-> {}, failed_io |-> FALSE, at |-> 0]

IdleInval == [k \in Invokers |-> IdleInvalidate]

\* Contents a cache file may have before the run: a list saved earlier, or
\* bytes that are not a serialized list.
InitialList == <<new_cursor(<<2>>, <<1>>)>>
CorruptData == <<2, 1>>

CacheInit(files, ttls) ==
    /\ now = 0
    /\ ttl_seconds \in ttls
    /\ \E f \in files :
        \/ f = "absent" /\ dir = NoFiles
        \/ f = "valid"
            /\ dir = DirWith(NoFiles, ProjectsCache,
                             [data |-> Serialize(InitialList), mtime |-> 0])
        \/ f = "corrupt"
            /\ dir = DirWith(NoFiles, ProjectsCache, [data |-> CorruptData, mtime |-> 0])
        \/ f = "empty"
            /\ dir = DirWith(NoFiles, ProjectsCache, [data |-> Serialize(<<>>), mtime |-> 0])
    /\ pid \in {[w \in Writers |-> 1], [w \in Writers |-> IF w = "w1" THEN 1 ELSE 2]}
    /\ writer = [w \in Writers |-> IdleWriter]
    /\ faults = 0
    /\ reader = IdleReader

\* A step of the cache leaves the other components alone.
OnlyCache == UNCHANGED <<modelVars, scanVars, refreshVars, ghVars, invalVars, callVars, localVars, openerVars, tuiVars>>

\* The clock advances.
Tick(limit) ==
    /\ now < limit
    /\ now' = now + 1
    /\ UNCHANGED <<ttl_seconds, dir, pid, writer, faults, reader>>
    /\ OnlyCache

\* save_projects, up to the retry loop: serialize the list (an Err leaves
\* through map_err and '?').
Saving(wr, l) ==
    IF Serializable(l)
    THEN [wr EXCEPT !.pc = "create", !.projects = l, !.data = Serialize(l)]
    ELSE [wr EXCEPT !.pc = "done", !.projects = l, !.result = "ErrSerialize"]

SaveStart(w, inputs) ==
    /\ writer[w].pc = "idle"
    /\ \E l \in inputs : writer' = [writer EXCEPT ![w] = Saving(@, l)]
    /\ UNCHANGED <<now, ttl_seconds, dir, pid, faults, reader>>
    /\ OnlyCache

\* The loop gives up one attempt early.
AttemptFailed_GivesUpEarly(wr) ==
    IF wr.attempt + 1 < LastSleepAttempt
    THEN [wr EXCEPT !.pc = "sleep", !.slept = Append(@, Pow2(wr.attempt)), !.failed_at = now]
    ELSE [wr EXCEPT !.pc = "done", !.result = "Err"]

\* The Err arm of the retry loop: back off before another attempt, or give up.
AttemptFailed(wr) ==
    IF wr.attempt < LastSleepAttempt
    THEN [wr EXCEPT !.pc = "sleep", !.slept = Append(@, Pow2(wr.attempt)), !.failed_at = now]
    ELSE IF wr.attempt + 1 < MaxAttempts
    THEN [wr EXCEPT !.pc = "sleep", !.failed_at = now]
    ELSE [wr EXCEPT !.pc = "done", !.result = "Err"]

\* thread::sleep returns once the time has passed; the loop goes round.
Wake(w) ==
    /\ writer[w].pc = "sleep"
    /\ now > writer[w].failed_at
    /\ writer' = [writer EXCEPT ![w] = [@ EXCEPT !.pc = "create", !.attempt = @ + 1]]
    /\ UNCHANGED <<now, ttl_seconds, dir, pid, faults, reader>>
    /\ OnlyCache

\* atomic_write: name the temporary file after the process and the clock, and
\* File::create it (an existing file of that name is opened and truncated).
CreateTemp(w) ==
    LET temp == TempName(ProjectsCache, pid[w], now) IN
    /\ writer[w].pc = "create"
    /\ dir' = DirWith(dir, temp, [data |-> <<>>, mtime |-> now])
    /\ writer' = [writer EXCEPT ![w] =
            [@ EXCEPT !.pc = "write", !.calls = @ + 1, !.temp_path = temp,
                      !.temps = Append(@, temp), !.fd = temp]]
    /\ UNCHANGED <<now, ttl_seconds, pid, faults, reader>>
    /\ OnlyCache

\* create_dir_all or File::create fails.
CreateFail(w) ==
    /\ writer[w].pc = "create"
    /\ faults < MaxFaults
    /\ faults' = faults + 1
    /\ writer' = [writer EXCEPT ![w] =
            AttemptFailed([@ EXCEPT !.calls = @ + 1,
                                    !.temp_path = TempName(ProjectsCache, pid[w], now),
                                    !.temps = Append(@, TempName(ProjectsCache, pid[w], now))])]
    /\ UNCHANGED <<now, ttl_seconds, dir, pid, reader>>
    /\ OnlyCache

\* write_all writes the whole buffer through the descriptor.
WriteAll(w) ==
    /\ writer[w].pc = "write"
    /\ dir' = WriteThrough(dir, writer[w].fd, writer[w].data, now)
    /\ writer' = [writer EXCEPT ![w] = [@ EXCEPT !.pc = "sync"]]
    /\ UNCHANGED <<now, ttl_seconds, pid, faults, reader>>
    /\ OnlyCache

\* write_all fails after part of the buffer went out; the temporary file stays.
WriteFail(w) ==
    LET part == SubSeq(writer[w].data, 1, Len(writer[w].data) \div 2) IN
    /\ writer[w].pc = "write"
    /\ faults < MaxFaults
    /\ faults' = faults + 1
    /\ dir' = WriteThrough(dir, writer[w].fd, part, now)
    /\ writer' = [writer EXCEPT ![w] = AttemptFailed(@)]
    /\ UNCHANGED <<now, ttl_seconds, pid, reader>>
    /\ OnlyCache

\* sync_all
SyncAll(w) ==
    /\ writer[w].pc = "sync"
    /\ writer' = [writer EXCEPT ![w] = [@ EXCEPT !.pc = "rename"]]
    /\ UNCHANGED <<now, ttl_seconds, dir, pid, faults, reader>>
    /\ OnlyCache

SyncFail(w) ==
    /\ writer[w].pc = "sync"
    /\ faults < MaxFaults
    /\ faults' = faults + 1
    /\ writer' = [writer EXCEPT ![w] = AttemptFailed(@)]
    /\ UNCHANGED <<now, ttl_seconds, dir, pid, reader>>
    /\ OnlyCache

\* fs::rename(temp, target) replaces the target in one step; save_projects
\* returns Ok.
RenameOk(w) ==
    LET temp == writer[w].temp_path IN
    /\ writer[w].pc = "rename"
    /\ temp \in DOMAIN dir
    /\ dir' = DirWith(DirWithout(dir, temp), ProjectsCache, dir[temp])
    /\ writer' = [Moved(writer, temp, ProjectsCache) EXCEPT ![w] =
            [@ EXCEPT !.pc = "done", !.result = "Ok", !.returned_at = now]]
    /\ UNCHANGED <<now, ttl_seconds, pid, faults, reader>>
    /\ OnlyCache

\* fs::rename fails (the temporary file is gone, or an injected failure); the
\* temporary file of that name is removed.
RenameFail(w) ==
    LET temp == writer[w].temp_path IN
    /\ writer[w].pc = "rename"
    /\ \/ temp \notin DOMAIN dir /\ faults' = faults
       \/ faults < MaxFaults /\ faults' = faults + 1
    /\ dir' = DirWithout(dir, temp)
    /\ writer' = [Moved(writer, temp, Unlinked) EXCEPT ![w] = AttemptFailed(@)]
    /\ UNCHANGED <<now, ttl_seconds, pid, reader>>
    /\ OnlyCache

InProgress(w) == writer[w].pc \in {"create", "write", "sync", "rename", "sleep"}

\* The process dies: every save in progress in it stops where it is.
Crash(p) ==
    /\ \E w \in Writers : pid[w] = p /\ InProgress(w)
    /\ faults < MaxFaults
    /\ faults' = faults + 1
    /\ writer' = [w \in Writers |->
            IF pid[w] = p /\ InProgress(w)
            THEN [writer[w] EXCEPT !.pc = "crashed"] ELSE writer[w]]
    /\ UNCHANGED <<now, ttl_seconds, dir, pid, reader>>
    /\ OnlyCache

\* ----------------------------------------------------------------- readers
\* is_cache_valid on what it reads: whether the path exists, the file's
\* modification time and the clock. The u64 subtraction panics where the build
\* checks overflow and wraps where it does not.
is_cache_valid(exists, modified, clock, ttl, overflow_checks) ==
    IF ~exists THEN "false"
    ELSE IF as_secs(clock) < as_secs(modified) /\ overflow_checks THEN "panic"
    ELSE LET age_seconds == (as_secs(clock) - as_secs(modified)) % U64Range
         IN  IF age_seconds < ttl THEN "true" ELSE "false"

\* What the reader sees of the cache file at this moment.
Observe(rd, op) ==
    [rd EXCEPT !.op = op,
               !.existed = ProjectsCache \in DOMAIN dir,
               !.read_now = now,
               !.read_mtime = IF ProjectsCache \in DOMAIN dir
                              THEN dir[ProjectsCache].mtime ELSE 0,
               !.after_save = {w \in Writers : writer[w].result = "Ok"}]

\* Cache::is_cache_valid(projects_cache_path()), called on its own.
IsCacheValid ==
    /\ reader.pc = "idle"
    /\ \E overflow_checks \in BOOLEAN :
        LET seen == Observe(reader, "is_cache_valid")
            v == is_cache_valid(seen.existed, seen.read_mtime, seen.read_now,
                                ttl_seconds, overflow_checks)
        IN  reader' = [seen EXCEPT !.pc = "done", !.valid = v,
                                   !.result = IF v = "panic" THEN "Panic" ELSE "Returned"]
    /\ UNCHANGED <<now, ttl_seconds, dir, pid, writer, faults>>
    /\ OnlyCache

\* load_projects, its validity check: an invalid cache is Ok(None).
LoadCheck ==
    /\ reader.pc = "idle"
    /\ \E overflow_checks \in BOOLEAN :
        LET seen == Observe(reader, "load_projects")
            v == is_cache_valid(seen.existed, seen.read_mtime, seen.read_now,
                                ttl_seconds, overflow_checks)
        IN  reader' =
                IF v = "true" THEN [seen EXCEPT !.pc = "read", !.valid = v]
                ELSE IF v = "false"
                THEN [seen EXCEPT !.pc = "done", !.valid = v, !.result = "OkNone"]
                ELSE [seen EXCEPT !.pc = "done", !.valid = v, !.result = "Panic"]
    /\ UNCHANGED <<now, ttl_seconds, dir, pid, writer, faults>>
    /\ OnlyCache

\* A file that does not deserialize is taken for a cache miss.
LoadResult_CorruptIsMiss(rd, exists, data) ==
    IF ~exists THEN [rd EXCEPT !.pc = "done", !.result = "ErrRead"]
    ELSE IF Deserialize(data).ok
    THEN [rd EXCEPT !.pc = "done", !.data = data, !.read_ok = TRUE, !.result = "OkSome",
                    !.list = Deserialize(data).val]
    ELSE [rd EXCEPT !.pc = "done", !.data = data, !.read_ok = TRUE, !.result = "OkNone"]

\* A file that does not deserialize is taken for the empty list.
LoadResult_CorruptIsEmpty(rd, exists, data) ==
    IF ~exists THEN [rd EXCEPT !.pc = "done", !.result = "ErrRead"]
    ELSE [rd EXCEPT !.pc = "done", !.data = data, !.read_ok = TRUE, !.result = "OkSome",
                    !.list = IF Deserialize(data).ok THEN Deserialize(data).val ELSE <<>>]

\* The result of load_projects once the file was found valid: fs::read, then
\* bincode::deserialize.
LoadResult(rd, exists, data) ==
    IF ~exists THEN [rd EXCEPT !.pc = "done", !.result = "ErrRead"]
    ELSE IF Deserialize(data).ok
    THEN [rd EXCEPT !.pc = "done", !.data = data, !.read_ok = TRUE, !.result = "OkSome",
                    !.list = Deserialize(data).val]
    ELSE [rd EXCEPT !.pc = "done", !.data = data, !.read_ok = TRUE,
                    !.result = "ErrDeserialize"]

LoadRead ==
    /\ reader.pc = "read"
    /\ reader' = LoadResult(reader, ProjectsCache \in DOMAIN dir,
                            IF ProjectsCache \in DOMAIN dir
                            THEN dir[ProjectsCache].data ELSE <<>>)
    /\ UNCHANGED <<now, ttl_seconds, dir, pid, writer, faults>>
    /\ OnlyCache

\* The caller is done with the result and may call again.
ReaderReturn ==
    /\ reader.pc = "done"
    /\ reader' = IdleReader
    /\ UNCHANGED <<now, ttl_seconds, dir, pid, writer, faults>>
    /\ OnlyCache

\* The system clock is set back (SystemTime is not monotonic).
ClockBack ==
    /\ now > 0
    /\ now' = now - 1
    /\ UNCHANGED <<ttl_seconds, dir, pid, writer, faults, reader>>
    /\ OnlyCache

\* ------------------------------------------------------------ invalidate_all
\* The paths array of invalidate_all.
CachePaths == <<ProjectsCache, GithubCache>>

\* Ok(()) follows the first path.
NextPath_FirstOnly(iv) ==
    [iv EXCEPT !.pc = "done", !.result = "Ok", !.at = now]

\* The loop goes on to the next path, or is over: Ok(()).
NextPath(iv) ==
    IF iv.i < Len(CachePaths)
    THEN [iv EXCEPT !.pc = "exists", !.i = @ + 1]
    ELSE [iv EXCEPT !.pc = "done", !.result = "Ok", !.at = now]

InvalidateAll(k) ==
    /\ inval[k].pc = "idle"
    /\ inval' = [inval EXCEPT ![k].pc = "exists"]
    /\ UNCHANGED cacheVars
    /\ UNCHANGED <<modelVars, scanVars, refreshVars, ghVars, callVars, localVars, openerVars, tuiVars>>

\* path.exists()
PathExists(k) ==
    /\ inval[k].pc = "exists"
    /\ inval' = [inval EXCEPT ![k] =
            IF CachePaths[@.i] \in DOMAIN dir THEN [@ EXCEPT !.pc = "remove"] ELSE NextPath(@)]
    /\ UNCHANGED cacheVars
    /\ UNCHANGED <<modelVars, scanVars, refreshVars, ghVars, callVars, localVars, openerVars, tuiVars>>

\* fs::remove_file(path)?: the file is removed, or it is no longer there and
\* the error leaves invalidate_all.
RemoveFile(k) ==
    LET path == CachePaths[inval[k].i] IN
    /\ inval[k].pc = "remove"
    /\ IF path \in DOMAIN dir
       THEN /\ dir' = DirWithout(dir, path)
            /\ writer' = Moved(writer, path, Unlinked)
            /\ inval' = [inval EXCEPT ![k] = NextPath([@ EXCEPT !.removed = @ \cup {path}])]
       ELSE /\ inval' = [inval EXCEPT ![k] = [@ EXCEPT !.pc = "done", !.result = "Err", !.at = now]]
            /\ UNCHANGED <<dir, writer>>
    /\ UNCHANGED <<now, ttl_seconds, pid, faults, reader>>
    /\ UNCHANGED <<modelVars, scanVars, refreshVars, ghVars, callVars, localVars, openerVars, tuiVars>>

\* fs::remove_file fails for another reason (an injected failure).
RemoveFileFail(k) ==
    /\ inval[k].pc = "remove"
    /\ faults < MaxFaults
    /\ faults' = faults + 1
    /\ inval' = [inval EXCEPT ![k] =
            [@ EXCEPT !.pc = "done", !.result = "Err", !.failed_io = TRUE, !.at = now]]
    /\ UNCHANGED <<now, ttl_seconds, dir, pid, writer, reader>>
    /\ UNCHANGED <<modelVars, scanVars, refreshVars, ghVars, callVars, localVars, openerVars, tuiVars>>

\* The caller is done with the result and may call again.
InvalidateReturn(k) ==
    /\ inval[k].pc = "done"
    /\ inval' = [inval EXCEPT ![k] = IdleInvalidate]
    /\ UNCHANGED cacheVars
    /\ UNCHANGED <<modelVars, scanVars, refreshVars, ghVars, callVars, localVars, openerVars, tuiVars>>

\* ============================================================== ScanManager
\* The names scan_all_verbose's threads know how to scan.
BuiltinNames == {"local", "cursor", "github"}

\* Result<ProjectList> of one scan.
ScanOk(projects) == [ok |-> TRUE, projects |-> projects]
ScanErr == [ok |-> FALSE, projects |-> <<>>]

\* A scanner object: the unit structs LocalScanner, CursorScanner and
\* GitHubScanner, and the tests' MockScanner.
BuiltinScanner(name) == [name |-> name, projects |-> <<>>, should_fail |-> FALSE]
MockScanner(name, projects) == [name |-> name, projects |-> projects, should_fail |-> FALSE]
MockScanner_new_failing(name) == [name |-> name, projects |-> <<>>, should_fail |-> TRUE]

\* MockScanner::scan
MockScan(s) == IF s.should_fail THEN ScanErr ELSE ScanOk(s.projects)

\* ScanManager::new
ScanManager_new == <<BuiltinScanner("local"), BuiltinScanner("cursor"), BuiltinScanner("github")>>

\* What the built-in scanners may return, the file system and the gh command
\* being what they are: some list, or an error.
BuiltinResults(name) ==
    {ScanErr} \cup
    IF name = "local"
    THEN {ScanOk(<<new_local(<<2>>, <<1>>)>>), ScanOk(<<>>)}
    ELSE IF name = "cursor"
    THEN {ScanOk(<<with_last_modified(new_cursor(<<1>>, <<2>>), 2)>>),
          ScanOk(<<new_cursor(<<2>>, <<2>>)>>)}
    ELSE {ScanOk(<<new_github(<<1>>, <<1>>, <<7>>),
                   with_last_modified(new_github(<<2>>, <<2>>, <<7>>), 1)>>)}

\* The result of a spawned thread, which scans by name (lines 59-64).
ThreadResults(name) ==
    IF name \in BuiltinNames THEN BuiltinResults(name) ELSE {ScanOk(<<>>)}

\* The result of scanner.scan(config) on a held scanner object.
HeldResults(s) ==
    IF s.name \in BuiltinNames THEN BuiltinResults(s.name) ELSE {MockScan(s)}

\* The managers of the program and of its tests.
ScannerSets ==
    { ScanManager_new,
      <<MockScanner("mock1", <<new_local(<<1>>, <<1>>)>>),
        MockScanner("mock2", <<new_local(<<2>>, <<2>>)>>)>>,
      <<MockScanner("good", <<new_local(<<1>>, <<1>>)>>), MockScanner_new_failing("bad")>>,
      <<BuiltinScanner("local"), MockScanner("mock1", <<new_gitlab(<<1>>, <<1>>, <<7>>)>>)>>,
      <<>> }

IdleScan ==
    [pc |-> "idle", path |-> "none", i |-> 0, all_projects |-> <<>>, seq |-> <<>>,
     result |-> "none"]

\* No get_projects_with_background_refresh call has been made.
IdleRefresh ==
    [pc |-> "idle", stored |-> <<>>, verdicts |-> <<>>, list |-> <<>>, handle |-> FALSE,
     spawned |-> 0, result |-> "none", received |-> <<>>, seen |-> "none"]

IdleChannel == [queue |-> <<>>, senders |-> 0]

IdleLocal ==
    [pc |-> "idle", result |-> "none", projects |-> <<>>,
     tree |-> [exists |-> FALSE, root_name |-> <<1>>, chain |-> <<>>, git |-> {}]]

IdleOpener ==
    [pc |-> "idle", project |-> new_local(<<1>>, <<1>>), editor_command |-> <<>>,
     path_exists |-> FALSE, existed |-> FALSE, clone |-> "none", cloned_from |-> None,
     launched |-> FALSE, result |-> "none", error |-> "none"]

IdleTui ==
    [pc |-> "idle", input |-> <<>>, projects |-> <<>>, filtered_projects |-> <<>>,
     selected_index |-> 0, should_quit |-> FALSE, selected_project |-> None,
     key |-> "none", result |-> "none"]

IdleCall ==
    [pc |-> "idle", fn |-> "none", stored |-> <<>>, cached |-> <<>>, verdicts |-> <<>>,
     result |-> "none", list |-> <<>>]

NoChild == [kind |-> "none", state |-> "none", age |-> 0, run |-> 0, ok |-> TRUE, out |-> <<>>]

IdleGh ==
    [pc |-> "idle", case |-> "none", child |-> NoChild, elapsed |-> 0,
     result |-> "none", projects |-> <<>>]

ScanIdle ==
    /\ handles = <<>>
    /\ scan = IdleScan
    /\ refresh = IdleRefresh
    /\ bg = [pc |-> "none", result |-> "none"]
    /\ chan = IdleChannel
    /\ gh = IdleGh
    /\ call = IdleCall
    /\ local = IdleLocal
    /\ opener = IdleOpener
    /\ tui = IdleTui
    /\ inval = IdleInval

\* A step of a scan leaves the other components alone.
OnlyScan == UNCHANGED <<modelVars, cacheVars, refreshVars, ghVars, invalVars, callVars, localVars, openerVars, tuiVars>>

\* scan_all_verbose is called.
ScanAllVerbose ==
    /\ scan.pc = "idle"
    /\ scan' = [scan EXCEPT !.pc = "spawn"]
    /\ UNCHANGED <<scanners, handles>>
    /\ OnlyScan

\* The spawn loop: one thread per held scanner, by name.
Spawn ==
    /\ scan.pc = "spawn"
    /\ Len(handles) < Len(scanners)
    /\ handles' = Append(handles, [name |-> scanners[Len(handles) + 1].name,
                                   state |-> "running", result |-> ScanErr,
                                   order |-> 0, joined |-> FALSE])
    /\ UNCHANGED <<scanners, scan>>
    /\ OnlyScan

\* The threads a manager of ScannerSets can spawn, by position.
ThreadIds == UNION {DOMAIN m : m \in ScannerSets}

\* The number of threads that are over.
Over(hs) == Cardinality({k \in DOMAIN hs : hs[k].state # "running"})

\* A scanner thread returns its (name, result, duration).
ThreadFinish(k) ==
    /\ k \in DOMAIN handles
    /\ handles[k].state = "running"
    /\ \E r \in ThreadResults(handles[k].name) :
        handles' = [handles EXCEPT ![k] = [@ EXCEPT !.state = "finished", !.result = r,
                                                    !.order = Over(handles) + 1]]
    /\ UNCHANGED <<scanners, scan>>
    /\ OnlyScan

\* A built-in scanner panics in its thread.
ThreadPanic(k) ==
    /\ k \in DOMAIN handles
    /\ handles[k].state = "running"
    /\ handles[k].name \in BuiltinNames
    /\ handles' = [handles EXCEPT ![k] = [@ EXCEPT !.state = "panicked",
                                                   !.order = Over(handles) + 1]]
    /\ UNCHANGED <<scanners, scan>>
    /\ OnlyScan

\* After the last scanner: deduplicate, sort_by_last_modified, Ok(all_projects).
Finish(sc) ==
    IF sc.i > Len(scanners)
    THEN [sc EXCEPT !.pc = "done", !.result = "Ok",
                    !.all_projects = sort_by_last_modified(deduplicate(@))]
    ELSE sc

\* The spawn loop is over: with a scanner of another name the call goes to
\* scan_all_sequential (the handles are dropped), else to the join loop.
CheckNames ==
    /\ scan.pc = "spawn"
    /\ Len(handles) = Len(scanners)
    /\ scan' = IF \E i \in DOMAIN scanners : scanners[i].name \notin BuiltinNames
               THEN Finish([scan EXCEPT !.pc = "sequential", !.path = "sequential", !.i = 1])
               ELSE Finish([scan EXCEPT !.pc = "join", !.path = "join", !.i = 1])
    /\ UNCHANGED <<scanners, handles>>
    /\ OnlyScan

\* A failing scanner ends the whole scan with its error.
Joined_StopAtFailure(sc, h) ==
    IF h.state = "finished" /\ h.result.ok
    THEN [sc EXCEPT !.i = @ + 1, !.all_projects = @ \o h.result.projects]
    ELSE [sc EXCEPT !.pc = "done", !.result = "Err"]

\* The results are merged newest first.
Joined_Prepends(sc, h) ==
    IF h.state = "finished" /\ h.result.ok
    THEN [sc EXCEPT !.i = @ + 1, !.all_projects = h.result.projects \o @]
    ELSE [sc EXCEPT !.i = @ + 1]

\* A panic of a scanner thread is passed on to the caller.
Joined_PanicPropagates(sc, h) ==
    IF h.state = "finished" /\ h.result.ok
    THEN [sc EXCEPT !.i = @ + 1, !.all_projects = @ \o h.result.projects]
    ELSE IF h.state = "panicked"
    THEN [sc EXCEPT !.pc = "done", !.result = "Panic"]
    ELSE [sc EXCEPT !.i = @ + 1]

\* The arms of the join loop: the projects of an Ok result are added, an Err
\* result and a panicked thread are warned about.
Joined(sc, h) ==
    IF h.state = "finished" /\ h.result.ok
    THEN [sc EXCEPT !.i = @ + 1, !.all_projects = @ \o h.result.projects]
    ELSE [sc EXCEPT !.i = @ + 1]

\* handle.join() returns once the thread is over.
Join ==
    /\ scan.pc = "join"
    /\ handles[scan.i].state # "running"
    /\ scan' = Finish(Joined(scan, handles[scan.i]))
    /\ handles' = [handles EXCEPT ![scan.i] = [@ EXCEPT !.joined = TRUE]]
    /\ UNCHANGED scanners
    /\ OnlyScan

\* scan_all_sequential: the next held scanner is scanned in the calling thread.
SequentialScan ==
    /\ scan.pc = "sequential"
    /\ \E r \in HeldResults(scanners[scan.i]) :
        scan' = Finish([scan EXCEPT !.i = @ + 1, !.seq = Append(@, r),
                                    !.all_projects = IF r.ok THEN @ \o r.projects ELSE @])
    /\ UNCHANGED <<scanners, handles>>
    /\ OnlyScan

\* A built-in scanner panics in the calling thread: the call unwinds.
SequentialPanic ==
    /\ scan.pc = "sequential"
    /\ scanners[scan.i].name \in BuiltinNames
    /\ scan' = [scan EXCEPT !.pc = "done", !.result = "Panic"]
    /\ UNCHANGED <<scanners, handles>>
    /\ OnlyScan

\* The lists the concurrent writers save.
MixedList == <<with_last_modified(new_local(<<1>>, <<1>>), 2), new_github(<<2>>, <<2>>, <<7>>)>>
OtherList == <<new_gitlab(<<1, 1>>, <<2>>, <<7>>)>>
NonUtf8List == <<new_local(<<1>>, <<InvalidUtf8Byte>>)>>
WriterInputs == {MixedList, OtherList, NonUtf8List}

WriterStep(w, inputs) ==
    \/ SaveStart(w, inputs)
    \/ CreateTemp(w)
    \/ CreateFail(w)
    \/ WriteAll(w)
    \/ WriteFail(w)
    \/ SyncAll(w)
    \/ SyncFail(w)
    \/ RenameOk(w)
    \/ RenameFail(w)
    \/ Wake(w)

Init ==
    /\ ModelsIdle
    /\ CacheInit({"absent", "valid"}, {1})
    /\ scanners = ScanManager_new
    /\ ScanIdle

Next ==
    \/ \E w \in Writers : WriterStep(w, WriterInputs)
    \/ Tick(MaxWriteTime)
    \/ \E p \in {1, 2} : Crash(p)

Spec == Init /\ [][Next]_vars

\* ---------------------------------------------- SpecLoad: one save and readers
\* The lists the single writer saves: mixed sources, timestamps and URLs
\* present and absent, the empty list, and a path that is not UTF-8.
CursorList == <<new_cursor(<<2>>, <<2>>), with_last_modified(new_gitlab(<<1>>, <<1>>, <<>>), 1)>>
LoadInputs == {<<>>, MixedList, OtherList, CursorList, NonUtf8List}

\* A save that meets no I/O failure.
SaveStep(w, inputs) ==
    \/ SaveStart(w, inputs)
    \/ CreateTemp(w)
    \/ WriteAll(w)
    \/ SyncAll(w)
    \/ RenameOk(w)

InitLoad ==
    /\ ModelsIdle
    /\ CacheInit({"absent", "valid", "corrupt"}, 1..MaxTtl)
    /\ pid = [w \in Writers |-> 1]
    /\ scanners = ScanManager_new
    /\ ScanIdle

NextLoad ==
    \/ SaveStep("w1", LoadInputs)
    \/ Tick(MaxTime)
    \/ ClockBack
    \/ IsCacheValid
    \/ LoadCheck
    \/ LoadRead
    \/ ReaderReturn

SpecLoad == InitLoad /\ [][NextLoad]_vars

\* ------------------------------------- SpecRetry: one save meeting I/O failures
InitRetry ==
    /\ Init
    /\ pid = [w \in Writers |-> 1]

NextRetry ==
    \/ WriterStep("w1", WriterInputs)
    \/ Tick(MaxWriteTime)

SpecRetry == InitRetry /\ [][NextRetry]_vars

\* ------------------------------------------ SpecModels: ProjectList operations
CacheIdle ==
    /\ CacheInit({"absent"}, {1})
    /\ pid = [w \in Writers |-> 1]

InitModels ==
    /\ ModelsIdle
    /\ CacheIdle
    /\ scanners = ScanManager_new
    /\ ScanIdle

NextModels ==
    \/ \E project \in Projects : AddProject(project)
    \/ Deduplicate
    \/ SortByLastModified

SpecModels == InitModels /\ [][NextModels]_vars

\* ------------------------------------- SpecSort: sort_by_last_modified alone
\* The comparator reads name and last_modified only; two sources at one path
\* give distinct projects with the same sort key.
SortProjects ==
    {p \in Projects : p.path = <<1>> /\ p.source \in {"Local", "Cursor"}}

InitSort == InitModels

NextSort ==
    \/ \E project \in SortProjects : AddProject(project)
    \/ SortByLastModified

SpecSort == InitSort /\ [][NextSort]_vars

\* ------------------------- SpecMerge: deduplicate and the merge step alone
\* deduplicate reads source and path, the comparator last_modified and name:
\* one name, every source, both paths, with and without a timestamp.
MergeProjects ==
    {p \in Projects : p.name = <<1>> /\ p.last_modified \in {None, Some(1)}}

\* The merge step of scan_all_verbose and scan_all_sequential.
merge(projects) == sort_by_last_modified(deduplicate(projects))

Merge ==
    /\ lastOp # "new"
    /\ prev' = plist
    /\ plist' = merge(plist)
    /\ lastOp' = "merge"
    /\ UNCHANGED <<cacheVars, scanVars, refreshVars, ghVars, invalVars, callVars, localVars, openerVars, tuiVars>>

InitMerge == InitModels

NextMerge ==
    \/ \E project \in MergeProjects : AddProject(project)
    \/ Deduplicate
    \/ Merge

SpecMerge == InitMerge /\ [][NextMerge]_vars

\* ------------------------------------------------ SpecScan: scan_all_verbose
InitScan ==
    /\ ModelsIdle
    /\ CacheIdle
    /\ scanners \in ScannerSets
    /\ ScanIdle

NextScan ==
    \/ ScanAllVerbose
    \/ Spawn
    \/ \E k \in ThreadIds : ThreadFinish(k)
    \/ \E k \in ThreadIds : ThreadPanic(k)
    \/ CheckNames
    \/ Join
    \/ SequentialScan
    \/ SequentialPanic

SpecScan == InitScan /\ [][NextScan]_vars

\* ====================================================== project_manager.rs
\* The save of a background refresh runs as this save_projects caller.
BgWriter == "w1"

\* Only an empty list asks for a refresh.
needs_refresh_OnlyWhenEmpty(is_empty, valid) == is_empty

\* needs_refresh of get_projects_with_background_refresh.
needs_refresh(is_empty, valid) == is_empty \/ ~valid

\* get_projects_with_background_refresh is called: Cache::new, and
\* load_projects begins.
RefreshCall ==
    /\ refresh.pc = "idle"
    /\ reader.pc = "idle"
    /\ refresh' = [refresh EXCEPT !.pc = "load",
                                  !.stored = IF ProjectsCache \in DOMAIN dir
                                             THEN <<dir[ProjectsCache].data>> ELSE <<>>]
    /\ UNCHANGED <<bg, chan>>
    /\ UNCHANGED <<modelVars, cacheVars, scanVars, ghVars, invalVars, callVars, localVars, openerVars, tuiVars>>

\* The steps of cache.load_projects() within the call.
RefreshLoadCheck == refresh.pc = "load" /\ LoadCheck
RefreshLoadRead == refresh.pc = "load" /\ LoadRead

\* The steps of cache.is_cache_valid(..) within the call.
RefreshIsCacheValid == refresh.pc = "validate" /\ IsCacheValid

\* The call returns: with needs_refresh the channel is made and the
\* background thread spawned, and the receiver is returned with the list.
Return(rf, needed) ==
    IF needed
    THEN /\ refresh' = [rf EXCEPT !.pc = "done", !.result = "Ok", !.handle = TRUE,
                                  !.spawned = @ + 1]
         /\ bg' = [pc |-> "running", result |-> "none"]
         /\ chan' = [queue |-> <<>>, senders |-> 1]
    ELSE /\ refresh' = [rf EXCEPT !.pc = "done", !.result = "Ok"]
         /\ UNCHANGED <<bg, chan>>

\* load_projects has returned: an error leaves through '?', Ok(None) becomes
\* the empty list, and an empty list needs a refresh whatever its age.
RefreshLoaded ==
    /\ refresh.pc = "load"
    /\ reader.pc = "done"
    /\ LET cached == IF reader.result = "OkSome" THEN reader.list ELSE <<>>
           rf == [refresh EXCEPT !.list = cached, !.verdicts = Append(@, reader.valid)]
       IN  IF reader.result \in {"ErrRead", "ErrDeserialize"}
           THEN /\ refresh' = [rf EXCEPT !.pc = "done", !.result = "Err"]
                /\ UNCHANGED <<bg, chan>>
           ELSE IF reader.result = "Panic"
           THEN /\ refresh' = [rf EXCEPT !.pc = "done", !.result = "Panic"]
                /\ UNCHANGED <<bg, chan>>
           ELSE IF cached = <<>>
           THEN Return(rf, needs_refresh(TRUE, TRUE))
           ELSE /\ refresh' = [rf EXCEPT !.pc = "validate"]
                /\ UNCHANGED <<bg, chan>>
    /\ reader' = IdleReader
    /\ UNCHANGED <<now, ttl_seconds, dir, pid, writer, faults>>
    /\ UNCHANGED <<modelVars, scanVars, ghVars, invalVars, callVars, localVars, openerVars, tuiVars>>

\* is_cache_valid has returned for a list that is not empty.
RefreshValidated ==
    /\ refresh.pc = "validate"
    /\ reader.pc = "done"
    /\ LET rf == [refresh EXCEPT !.verdicts = Append(@, reader.valid)]
       IN  IF reader.valid = "panic"
           THEN /\ refresh' = [rf EXCEPT !.pc = "done", !.result = "Panic"]
                /\ UNCHANGED <<bg, chan>>
           ELSE Return(rf, needs_refresh(FALSE, reader.valid = "true"))
    /\ reader' = IdleReader
    /\ UNCHANGED <<now, ttl_seconds, dir, pid, writer, faults>>
    /\ UNCHANGED <<modelVars, scanVars, ghVars, invalVars, callVars, localVars, openerVars, tuiVars>>

\* The background thread, get_projects_fresh: scan_all_verbose is called.
BgScan == bg.pc = "running" /\ ScanAllVerbose

\* get_projects_fresh: the scan has returned (its handles are consumed, its
\* frame is gone), save_projects is called on its list.
BgSave ==
    /\ bg.pc = "running"
    /\ scan.pc = "done"
    /\ writer[BgWriter].pc = "idle"
    /\ writer' = [writer EXCEPT ![BgWriter] = Saving(@, scan.all_projects)]
    /\ handles' = <<>>
    /\ scan' = [IdleScan EXCEPT !.pc = "returned"]
    /\ UNCHANGED <<scanners, now, ttl_seconds, dir, pid, faults, reader>>
    /\ UNCHANGED <<modelVars, refreshVars, ghVars, invalVars, callVars, localVars, openerVars, tuiVars>>

\* A failed refresh sends an empty list.
Sent_AlwaysSends(ch, result, list) ==
    IF result = "Ok"
    THEN [queue |-> Append(ch.queue, list), senders |-> 0]
    ELSE [queue |-> Append(ch.queue, <<>>), senders |-> 0]

\* The list is sent whatever get_projects_fresh returned.
Sent_IgnoresResult(ch, result, list) ==
    [queue |-> Append(ch.queue, list), senders |-> 0]

\* The channel after the thread's body: the list is sent if get_projects_fresh
\* returned Ok, and the sender is dropped.
Sent(ch, result, list) ==
    IF result = "Ok"
    THEN [queue |-> Append(ch.queue, list), senders |-> 0]
    ELSE [queue |-> ch.queue, senders |-> 0]

\* save_projects has returned in the background thread; the thread ends.
BgDone ==
    /\ bg.pc = "running"
    /\ writer[BgWriter].pc = "done"
    /\ bg' = [pc |-> "done", result |-> IF writer[BgWriter].result = "Ok" THEN "Ok" ELSE "Err"]
    /\ chan' = Sent(chan, IF writer[BgWriter].result = "Ok" THEN "Ok" ELSE "Err",
                    writer[BgWriter].projects)
    /\ UNCHANGED refresh
    /\ UNCHANGED <<modelVars, cacheVars, scanVars, ghVars, invalVars, callVars, localVars, openerVars, tuiVars>>

\* The caller receives on the handle (Receiver::recv): a value that was sent,
\* or the error that tells that the sender is gone.
Recv ==
    /\ refresh.handle
    /\ refresh.seen # "disconnected"
    /\ IF chan.queue # <<>>
       THEN /\ refresh' = [refresh EXCEPT !.received = Append(@, Head(chan.queue)),
                                          !.seen = "value"]
            /\ chan' = [chan EXCEPT !.queue = Tail(@)]
       ELSE /\ chan.senders = 0
            /\ refresh' = [refresh EXCEPT !.seen = "disconnected"]
            /\ UNCHANGED chan
    /\ UNCHANGED bg
    /\ UNCHANGED <<modelVars, cacheVars, scanVars, ghVars, invalVars, callVars, localVars, openerVars, tuiVars>>

\* Time passes before and during the call, and while the background save
\* sleeps between two attempts.
RefreshTick ==
    /\ refresh.pc # "done" \/ writer[BgWriter].pc = "sleep"
    /\ Tick(MaxTime)

\* ------------------------- SpecRefresh: get_projects_with_background_refresh
InitRefresh ==
    /\ ModelsIdle
    /\ CacheInit({"absent", "valid", "corrupt", "empty"}, 1..MaxTtl)
    /\ pid = [w \in Writers |-> 1]
    /\ scanners = ScanManager_new
    /\ ScanIdle

NextRefresh ==
    \/ RefreshCall
    \/ RefreshLoadCheck
    \/ RefreshLoadRead
    \/ RefreshLoaded
    \/ RefreshIsCacheValid
    \/ RefreshValidated
    \/ BgScan
    \/ Spawn
    \/ \E k \in ThreadIds : ThreadFinish(k)
    \/ \E k \in ThreadIds : ThreadPanic(k)
    \/ CheckNames
    \/ Join
    \/ BgSave
    \/ CreateTemp(BgWriter)
    \/ CreateFail(BgWriter)
    \/ WriteAll(BgWriter)
    \/ WriteFail(BgWriter)
    \/ SyncAll(BgWriter)
    \/ SyncFail(BgWriter)
    \/ RenameOk(BgWriter)
    \/ RenameFail(BgWriter)
    \/ Wake(BgWriter)
    \/ BgDone
    \/ Recv
    \/ RefreshTick

SpecRefresh == InitRefresh /\ [][NextRefresh]_vars

\* --------------------- SpecInvalidate: invalidate_all, then loads and a save
\* One invocation: its save and its invalidate_all follow one another; a
\* load of another invocation runs at any moment.
NoInvalidation == \A k \in Invokers : inval[k].pc = "idle"

SeqInvalidateAll ==
    /\ writer["w1"].pc \in {"idle", "done"}
    /\ InvalidateAll("i1")

SeqSaveStep ==
    /\ NoInvalidation
    /\ SaveStep("w1", {MixedList})

InitInvalidate ==
    /\ ModelsIdle
    /\ now = 0
    /\ ttl_seconds \in 1..MaxTtl
    /\ \E present \in SUBSET {ProjectsCache, GithubCache} :
            dir = [n \in present |-> [data |-> Serialize(InitialList), mtime |-> 0]]
    /\ pid = [w \in Writers |-> 1]
    /\ writer = [w \in Writers |-> IdleWriter]
    /\ faults = 0
    /\ reader = IdleReader
    /\ scanners = ScanManager_new
    /\ ScanIdle

NextInvalidate ==
    \/ SeqInvalidateAll
    \/ PathExists("i1")
    \/ RemoveFile("i1")
    \/ RemoveFileFail("i1")
    \/ InvalidateReturn("i1")
    \/ SeqSaveStep
    \/ IsCacheValid
    \/ LoadCheck
    \/ LoadRead
    \/ ReaderReturn
    \/ Tick(MaxWriteTime)

SpecInvalidate == InitInvalidate /\ [][NextInvalidate]_vars

\* ------------------------ get_projects_with_cache and get_projects_fresh
\* The save of get_projects_fresh in the calling thread runs as this caller.
FreshWriter == "w1"

\* The cached list is never good enough.
should_scan_Always(is_none, valid) == TRUE

\* should_scan of get_projects_with_cache.
should_scan(is_none, valid) == is_none \/ ~valid

\* Ok(project_list) whatever save_projects returned.
FreshResult_IgnoresSave(save_result) == "Ok"

\* get_projects_fresh after cache.save_projects(&project_list)?
FreshResult(save_result) == IF save_result = "Ok" THEN "Ok" ELSE "Err"

\* get_projects_with_cache is called: Cache::new, and load_projects begins.
WithCacheCall ==
    /\ call.pc = "idle"
    /\ reader.pc = "idle"
    /\ call' = [call EXCEPT !.pc = "load", !.fn = "get_projects_with_cache",
                            !.stored = dir]
    /\ UNCHANGED <<modelVars, cacheVars, scanVars, refreshVars, ghVars, invalVars, localVars, openerVars, tuiVars>>

\* The steps of cache.load_projects() within the call.
WithCacheLoadCheck == call.pc = "load" /\ LoadCheck
WithCacheLoadRead == call.pc = "load" /\ LoadRead

\* load_projects has returned: an error leaves through '?'; with None the
\* call goes on to get_projects_fresh (the || does not evaluate
\* is_cache_valid), with Some(list) to the second validity check.
WithCacheLoaded ==
    /\ call.pc = "load"
    /\ reader.pc = "done"
    /\ LET c == [call EXCEPT !.verdicts = Append(@, reader.valid)]
       IN  call' = IF reader.result \in {"ErrRead", "ErrDeserialize"}
                   THEN [c EXCEPT !.pc = "done", !.result = "Err"]
                   ELSE IF reader.result = "Panic"
                   THEN [c EXCEPT !.pc = "done", !.result = "Panic"]
                   ELSE IF reader.result = "OkNone"
                   THEN [c EXCEPT !.pc = IF should_scan(TRUE, TRUE) THEN "scan" ELSE "done"]
                   ELSE [c EXCEPT !.pc = "validate", !.cached = Some(reader.list)]
    /\ reader' = IdleReader
    /\ UNCHANGED <<now, ttl_seconds, dir, pid, writer, faults>>
    /\ UNCHANGED <<modelVars, scanVars, refreshVars, ghVars, invalVars, localVars, openerVars, tuiVars>>

\* The steps of cache.is_cache_valid(..) within the call.
WithCacheIsCacheValid == call.pc = "validate" /\ IsCacheValid

\* is_cache_valid has returned: the cached list is returned, or the call
\* goes on to get_projects_fresh.
WithCacheValidated ==
    /\ call.pc = "validate"
    /\ reader.pc = "done"
    /\ LET c == [call EXCEPT !.verdicts = Append(@, reader.valid)]
       IN  call' = IF reader.valid = "panic"
                   THEN [c EXCEPT !.pc = "done", !.result = "Panic"]
                   ELSE IF should_scan(FALSE, reader.valid = "true")
                   THEN [c EXCEPT !.pc = "scan"]
                   ELSE [c EXCEPT !.pc = "done", !.result = "Ok", !.list = Unwrap(c.cached)]
    /\ reader' = IdleReader
    /\ UNCHANGED <<now, ttl_seconds, dir, pid, writer, faults>>
    /\ UNCHANGED <<modelVars, scanVars, refreshVars, ghVars, invalVars, localVars, openerVars, tuiVars>>

\* get_projects_fresh is called.
FreshCall ==
    /\ call.pc = "idle"
    /\ call' = [call EXCEPT !.pc = "scan", !.fn = "get_projects_fresh", !.stored = dir]
    /\ UNCHANGED <<modelVars, cacheVars, scanVars, refreshVars, ghVars, invalVars, localVars, openerVars, tuiVars>>

\* get_projects_fresh: scan_all_verbose is called.
FreshScan == call.pc = "scan" /\ ScanAllVerbose

\* get_projects_fresh: the scan has returned (its handles are consumed, its
\* frame is gone), save_projects is called on its list.
FreshSave ==
    /\ call.pc = "scan"
    /\ scan.pc = "done"
    /\ writer[FreshWriter].pc = "idle"
    /\ writer' = [writer EXCEPT ![FreshWriter] = Saving(@, scan.all_projects)]
    /\ handles' = <<>>
    /\ scan' = [IdleScan EXCEPT !.pc = "returned"]
    /\ call' = [call EXCEPT !.pc = "save", !.list = scan.all_projects]
    /\ UNCHANGED <<scanners, now, ttl_seconds, dir, pid, faults, reader>>
    /\ UNCHANGED <<modelVars, refreshVars, ghVars, invalVars, localVars, openerVars, tuiVars>>

\* save_projects has returned: its error leaves through '?', else
\* Ok(project_list).
FreshDone ==
    /\ call.pc = "save"
    /\ writer[FreshWriter].pc = "done"
    /\ call' = [call EXCEPT !.pc = "done", !.result = FreshResult(writer[FreshWriter].result),
                            !.list = IF FreshResult(writer[FreshWriter].result) = "Ok"
                                     THEN @ ELSE <<>>]
    /\ UNCHANGED <<modelVars, cacheVars, scanVars, refreshVars, ghVars, invalVars, localVars, openerVars, tuiVars>>

\* A load_projects that follows the call.
FollowingLoadCheck == call.pc = "done" /\ LoadCheck
FollowingLoadRead == call.pc = "done" /\ LoadRead

\* Time passes before and during the checks, while the save sleeps between
\* two attempts, and before the load that follows.
ManagerTick ==
    /\ \/ call.pc \in {"idle", "load", "validate"}
       \/ writer[FreshWriter].pc = "sleep"
       \/ call.pc = "done" /\ reader.pc = "idle"
    /\ Tick(MaxTime)

\* ------------- SpecManager: get_projects_with_cache and get_projects_fresh
InitManager == InitRefresh

NextManager ==
    \/ WithCacheCall
    \/ WithCacheLoadCheck
    \/ WithCacheLoadRead
    \/ WithCacheLoaded
    \/ WithCacheIsCacheValid
    \/ WithCacheValidated
    \/ FreshCall
    \/ FreshScan
    \/ Spawn
    \/ \E k \in ThreadIds : ThreadFinish(k)
    \/ \E k \in ThreadIds : ThreadPanic(k)
    \/ CheckNames
    \/ Join
    \/ FreshSave
    \/ CreateTemp(FreshWriter)
    \/ CreateFail(FreshWriter)
    \/ WriteAll(FreshWriter)
    \/ WriteFail(FreshWriter)
    \/ SyncAll(FreshWriter)
    \/ SyncFail(FreshWriter)
    \/ RenameOk(FreshWriter)
    \/ RenameFail(FreshWriter)
    \/ Wake(FreshWriter)
    \/ FreshDone
    \/ FollowingLoadCheck
    \/ FollowingLoadRead
    \/ ManagerTick

SpecManager == InitManager /\ [][NextManager]_vars

\* ------------- SpecRace: two invocations run invalidate_all at the same time
InitRace == InitInvalidate

NextRace ==
    \/ \E k \in Invokers : InvalidateAll(k)
    \/ \E k \in Invokers : PathExists(k)
    \/ \E k \in Invokers : RemoveFile(k)
    \/ \E k \in Invokers : RemoveFileFail(k)

SpecRace == InitRace /\ [][NextRace]_vars

\* --------- SpecCorrupt: the two cached calls on a file that does not parse
\* One invocation after another on a cache file that may not deserialize:
\* get_projects_with_cache, get_projects_with_background_refresh after a call
\* that failed, and invalidate_all between calls, while the clock advances.
\* The calls are followed up to their return or to the start of their scan.
CorruptWithCacheCall ==
    /\ refresh.pc = "idle"
    /\ inval["i1"].pc = "idle"
    /\ WithCacheCall

CorruptRefreshCall ==
    /\ call.pc = "idle" \/ (call.pc = "done" /\ call.result = "Err")
    /\ inval["i1"].pc = "idle"
    /\ RefreshCall

CorruptInvalidateAll ==
    /\ call.pc = "idle" \/ (call.pc = "done" /\ call.result = "Err")
    /\ refresh.pc = "idle"
    /\ reader.pc = "idle"
    /\ InvalidateAll("i1")

InitCorrupt ==
    /\ ModelsIdle
    /\ CacheInit({"corrupt", "valid"}, 1..MaxTtl)
    /\ pid = [w \in Writers |-> 1]
    /\ scanners = ScanManager_new
    /\ ScanIdle

NextCorrupt ==
    \/ CorruptWithCacheCall
    \/ WithCacheLoadCheck
    \/ WithCacheLoadRead
    \/ WithCacheLoaded
    \/ WithCacheIsCacheValid
    \/ WithCacheValidated
    \/ FreshScan
    \/ CorruptRefreshCall
    \/ RefreshLoadCheck
    \/ RefreshLoadRead
    \/ RefreshLoaded
    \/ RefreshIsCacheValid
    \/ RefreshValidated
    \/ BgScan
    \/ CorruptInvalidateAll
    \/ PathExists("i1")
    \/ RemoveFile("i1")
    \/ RemoveFileFail("i1")
    \/ InvalidateReturn("i1")
    \/ ManagerTick

SpecCorrupt == InitCorrupt /\ [][NextCorrupt]_vars

\* ========================================================== GitHubScanner
\* Time is counted in polling intervals of fetch_user_repositories_with_timeout
\* (the 100 ms sleep); TimeoutPolls is its timeout in these intervals.
\* PipeCapacity is what the stdout pipe of the subprocess holds before a
\* write to it blocks, in output lines.
OnlyGh == UNCHANGED <<modelVars, cacheVars, scanVars, refreshVars, invalVars, callVars, localVars, openerVars, tuiVars>>

\* A subprocess that never exits by itself.
Never == TimeoutPolls + 2

\* The text of a timestamp: the RFC 3339 text of a time, or text that is none.
TimestampText(t) == <<t>>
BadTimestamp == <<>>

\* The lines gh prints: one JSON object per repository, or a line that does
\* not parse as one.
GhLine(valid, archived, html_url, pushed_at, updated_at) ==
    [valid |-> valid, name |-> <<1>>, html_url |-> html_url, archived |-> archived,
     pushed_at |-> pushed_at, updated_at |-> updated_at]

GhLines ==
    {GhLine(TRUE, FALSE, <<7>>, Some(TimestampText(2)), Some(TimestampText(1))),
     GhLine(TRUE, FALSE, <<7>>, None, Some(TimestampText(1))),
     GhLine(TRUE, FALSE, <<7>>, None, None),
     GhLine(TRUE, TRUE, <<7>>, None, None),
     GhLine(TRUE, FALSE, <<7>>, Some(BadTimestamp), Some(TimestampText(1))),
     GhLine(FALSE, FALSE, <<7>>, None, None)}

GhOutputs == UNION {[1..n -> GhLines] : n \in 0..(PipeCapacity + 1)}

\* get_clone_path: the home directory joined with Documents/git and the name.
HomeDocumentsGit == <<9>>
get_clone_path(repo_name) == HomeDocumentsGit \o repo_name

\* parse_github_timestamp: Ok(None), Ok(Some(time)) or an error.
parse_github_timestamp(timestamp_str) ==
    IF ~IsSome(timestamp_str) THEN [ok |-> TRUE, value |-> None]
    ELSE IF Unwrap(timestamp_str) \in {TimestampText(t) : t \in Times}
    THEN [ok |-> TRUE, value |-> Some(Unwrap(timestamp_str)[1])]
    ELSE [ok |-> FALSE, value |-> None]

\* Option::or
OptionOr(a, b) == IF IsSome(a) THEN a ELSE b

\* repository_to_project: Ok(None) for an archived repository, an error when
\* there is no home directory or the timestamp does not parse, else the
\* project.
repository_to_project(repo, home) ==
    LET last_modified == parse_github_timestamp(OptionOr(repo.pushed_at, repo.updated_at))
        project == new_github(repo.name, get_clone_path(repo.name), repo.html_url)
    IN  IF repo.archived THEN [ok |-> TRUE, value |-> None]
        ELSE IF ~home \/ ~last_modified.ok THEN [ok |-> FALSE, value |-> None]
        ELSE IF IsSome(last_modified.value)
        THEN [ok |-> TRUE, value |-> Some(with_last_modified(project, Unwrap(last_modified.value)))]
        ELSE [ok |-> TRUE, value |-> Some(project)]

\* The loop of scan over the repositories: the first error ends the scan.
RECURSIVE AddRepositories(_, _, _)
AddRepositories(project_list, repositories, home) ==
    IF repositories = <<>> THEN [ok |-> TRUE, value |-> project_list]
    ELSE LET r == repository_to_project(repositories[1], home)
         IN  IF ~r.ok THEN [ok |-> FALSE, value |-> <<>>]
             ELSE AddRepositories(project_list \o r.value, Tail(repositories), home)

\* scan has returned.
GhReturn(g, case, result, projects) ==
    [g EXCEPT !.pc = "done", !.case = case, !.result = result, !.projects = projects]

\* What a subprocess does in the time that passes: it runs, then writes its
\* output and exits; with more output than the pipe holds it stays blocked in
\* the write for as long as nobody reads.
Progress(c) ==
    IF c.state = "running" /\ c.run # Never /\ c.age >= c.run
    THEN [c EXCEPT !.state = IF c.kind = "fetch" /\ Len(c.out) > PipeCapacity
                              THEN "blocked" ELSE "exited"]
    ELSE c

\* GitHubScanner::scan, up to the check of config.github_username
GitHubScan(github_username) ==
    /\ gh.pc = "idle"
    /\ gh' = IF IsSome(github_username)
             THEN [gh EXCEPT !.pc = "installed"]
             ELSE GhReturn(gh, "no_username", "Ok", <<>>)
    /\ OnlyGh

\* is_gh_installed: which::which("gh").is_ok()
IsGhInstalled(found) ==
    /\ gh.pc = "installed"
    /\ gh' = IF found
             THEN [gh EXCEPT !.pc = "authenticated"]
             ELSE GhReturn(gh, "not_installed", "Ok", <<>>)
    /\ OnlyGh

\* is_gh_authenticated: Command::output spawns gh api user, or fails to.
AuthBehaviours == {"login", "empty", "failure", "hang"}

AuthSpawn(behaviour) ==
    /\ gh.pc = "authenticated"
    /\ gh' = [gh EXCEPT !.pc = "output",
                        !.child = [NoChild EXCEPT !.kind = "auth", !.state = "running",
                                                  !.run = IF behaviour = "hang" THEN Never ELSE 0,
                                                  !.ok = behaviour # "failure",
                                                  !.out = IF behaviour \in {"login", "failure"}
                                                          THEN <<1>> ELSE <<>>]]
    /\ OnlyGh

AuthSpawnFail ==
    /\ gh.pc = "authenticated"
    /\ gh' = GhReturn(gh, "auth_failed_to_run", "Err", <<>>)
    /\ OnlyGh

\* Command::output waits for the subprocess to exit, reading its pipes.
AuthWait ==
    /\ gh.pc = "output"
    /\ gh.child.run = Never
    /\ gh.child.age < Never
    /\ gh' = [gh EXCEPT !.child.age = @ + 1]
    /\ OnlyGh

\* Ok(output.status.success() && !stdout.trim().is_empty())
AuthExit ==
    /\ gh.pc = "output"
    /\ gh.child.run # Never
    /\ gh' = IF gh.child.ok /\ gh.child.out # <<>>
             THEN [gh EXCEPT !.pc = "fetch", !.child.state = "exited"]
             ELSE GhReturn([gh EXCEPT !.child.state = "exited"], "not_authenticated", "Ok", <<>>)
    /\ OnlyGh

\* fetch_user_repositories_with_timeout: Instant::now and Command::spawn
\* with both pipes piped.
FetchSpawn(run, ok, out) ==
    /\ gh.pc = "fetch"
    /\ gh' = [gh EXCEPT !.pc = "try_wait", !.elapsed = 0,
                        !.child = Progress([NoChild EXCEPT !.kind = "fetch", !.state = "running",
                                                           !.run = run, !.ok = ok, !.out = out])]
    /\ OnlyGh

FetchSpawnFail ==
    /\ gh.pc = "fetch"
    /\ gh' = GhReturn(gh, "fetch_failed", "Ok", <<>>)
    /\ OnlyGh

\* Ok(Some(status)): wait_with_output reads the pipes; a failure status or a
\* line that does not parse is an error of the fetch, which scan answers
\* with the empty list; an error of repository_to_project is scan's error.
TryWaitExited(home) ==
    /\ gh.pc = "try_wait"
    /\ gh.child.state = "exited"
    /\ gh' = IF ~gh.child.ok \/ \E i \in DOMAIN gh.child.out : ~gh.child.out[i].valid
             THEN GhReturn(gh, "fetch_failed", "Ok", <<>>)
             ELSE LET r == AddRepositories(<<>>, gh.child.out, home)
                  IN  IF r.ok
                      THEN GhReturn(gh, "fetched", "Ok", sort_by_last_modified(r.value))
                      ELSE GhReturn(gh, "conversion_failed", "Err", <<>>)
    /\ OnlyGh

\* Ok(None): past the timeout the subprocess is killed and reaped and the
\* fetch fails; else the thread sleeps for one polling interval.
TryWaitRunning ==
    /\ gh.pc = "try_wait"
    /\ gh.child.state \in {"running", "blocked"}
    /\ gh' = IF gh.elapsed > TimeoutPolls
             THEN GhReturn([gh EXCEPT !.child.state = "killed"], "timeout", "Ok", <<>>)
             ELSE [gh EXCEPT !.pc = "sleep"]
    /\ OnlyGh

\* Err(e): the subprocess is killed and the fetch fails.
TryWaitError ==
    /\ gh.pc = "try_wait"
    /\ gh.child.state \in {"running", "blocked"}
    /\ gh' = GhReturn([gh EXCEPT !.child.state = "killed"], "fetch_failed", "Ok", <<>>)
    /\ OnlyGh

\* std::thread::sleep(Duration::from_millis(100))
Sleep ==
    /\ gh.pc = "sleep"
    /\ gh' = [gh EXCEPT !.pc = "try_wait", !.elapsed = @ + 1,
                        !.child = Progress([gh.child EXCEPT !.age = @ + 1])]
    /\ OnlyGh

\* What the other scanners of a manager contribute beside the github one:
\* nothing, a Local project at the clone path of a repository, a GitLab
\* project of a scanner given to new_with_scanners.
OtherContributions ==
    {<<>>, <<new_local(<<1>>, get_clone_path(<<1>>))>>, <<new_gitlab(<<1>>, <<3>>, <<8>>)>>}

\* scan_all_verbose around the github scan: the Ok results are appended and
\* merged.
ScanAllMerged(others) ==
    /\ gh.pc = "done"
    /\ lastOp = "new"
    /\ plist' = merge(others \o (IF gh.result = "Ok" THEN gh.projects ELSE <<>>))
    /\ lastOp' = "scan_all_verbose"
    /\ UNCHANGED prev
    /\ UNCHANGED <<cacheVars, scanVars, refreshVars, ghVars, invalVars, callVars, localVars, openerVars, tuiVars>>

\* The list goes through save_projects and comes back from load_projects.
SavedAndLoaded ==
    /\ lastOp = "scan_all_verbose"
    /\ Serializable(plist)
    /\ prev' = plist
    /\ plist' = Deserialize(Serialize(plist)).val
    /\ lastOp' = "load_projects"
    /\ UNCHANGED <<cacheVars, scanVars, refreshVars, ghVars, invalVars, callVars, localVars, openerVars, tuiVars>>

\* --------------------------------------------- SpecGh: GitHubScanner::scan
InitGh == InitModels

NextGh ==
    \/ \E github_username \in {None, Some(<<1>>)} : GitHubScan(github_username)
    \/ \E found \in BOOLEAN : IsGhInstalled(found)
    \/ \E behaviour \in AuthBehaviours : AuthSpawn(behaviour)
    \/ AuthSpawnFail
    \/ AuthWait
    \/ AuthExit
    \/ \E run \in 0..(TimeoutPolls + 2), ok \in BOOLEAN, out \in GhOutputs : FetchSpawn(run, ok, out)
    \/ FetchSpawnFail
    \/ \E home \in BOOLEAN : TryWaitExited(home)
    \/ TryWaitRunning
    \/ TryWaitError
    \/ Sleep
    \/ \E others \in OtherContributions : ScanAllMerged(others)
    \/ SavedAndLoaded

SpecGh == InitGh /\ [][NextGh]_vars

\* ============================================================ LocalScanner
\* A directory tree under a configured root, as far as scan_directory can
\* tell trees apart: one chain of directories below the root, each with a
\* plain or a hidden name, and the depths (0 is the root) whose directory
\* holds a .git entry. A name is its bytes.
Dot == 46
max_depth == 3

PlainName == <<1>>
HiddenName == <<Dot, 1>>
DirNames == {PlainName, HiddenName}

Chains == UNION {[1..n -> DirNames] : n \in 0..MaxTreeDepth}

NoRoot == [exists |-> FALSE, root_name |-> PlainName, chain |-> <<>>, git |-> {}]

Trees ==
    {NoRoot} \cup
    UNION {{[exists |-> TRUE, root_name |-> r, chain |-> c, git |-> g] :
                r \in DirNames, g \in SUBSET (0..Len(c))} : c \in Chains}

\* The path of the directory at a depth, and its file_name.
PathAt(tree, d) == SubSeq(tree.chain, 1, d)
FileName(tree, d) == IF d = 0 THEN tree.root_name ELSE tree.chain[d]

\* is_hidden_directory: the file name starts with '.'.
is_hidden_directory(name) == name # <<>> /\ name[1] = Dot

\* has_git_directory: path.join(".git").exists()
has_git_directory(tree, d) == d \in tree.git

\* is_project_directory
is_project_directory(tree, d) == has_git_directory(tree, d)

\* get_project_timestamp: the time of the last commit, else the modification
\* time of the directory, if either is to be had.
get_project_timestamp(timestamp, project) ==
    IF IsSome(timestamp) THEN with_last_modified(project, Unwrap(timestamp)) ELSE project

\* The directories the walker yields: hidden(false) lets it enter hidden
\* directories, max_depth(Some(3)) stops it below depth 3.
Walked(tree) == {d \in 0..Len(tree.chain) : d <= max_depth}

\* The loop of scan_directory over the walker's entries, from depth d on.
RECURSIVE ScanFrom(_, _, _)
ScanFrom(tree, d, timestamp) ==
    IF d \notin Walked(tree) THEN <<>>
    ELSE (IF ~is_hidden_directory(FileName(tree, d)) /\ is_project_directory(tree, d)
          THEN <<get_project_timestamp(timestamp,
                                       new_local(FileName(tree, d), PathAt(tree, d)))>>
          ELSE <<>>) \o ScanFrom(tree, d + 1, timestamp)

\* scan_directory: a base_dir that does not exist is Ok(vec![]).
scan_directory(tree, timestamp) ==
    IF ~tree.exists THEN <<>> ELSE ScanFrom(tree, 0, timestamp)

ScanDirectory(tree, timestamp) ==
    /\ local.pc = "idle"
    /\ local' = [pc |-> "done", tree |-> tree, result |-> "Ok",
                 projects |-> scan_directory(tree, timestamp)]
    /\ UNCHANGED <<modelVars, cacheVars, scanVars, refreshVars, ghVars, invalVars, callVars, openerVars, tuiVars>>

\* ----------------------------------------------- SpecLocal: scan_directory
InitLocal == InitModels

NextLocal == \E tree \in Trees, timestamp \in {None, Some(1)} : ScanDirectory(tree, timestamp)

SpecLocal == InitLocal /\ [][NextLocal]_vars

\* ============================================================ ProjectOpener
\* An editor command is text: Space is its whitespace, every other byte is
\* part of a word.
Space == 32

EditorCode == <<99, 111, 100, 101>>
EditorVim == <<118, 105, 109>>
EditorCommands == {<<>>, <<Space>>, EditorCode, EditorVim, <<Space>> \o EditorVim \o <<Space, 45>>}

\* str::trim().is_empty()
TrimIsEmpty(s) == \A i \in DOMAIN s : s[i] = Space

\* split_whitespace().next(): the first word of a command that has one.
RECURSIVE FirstWord(_)
FirstWord(s) ==
    IF s = <<>> THEN <<>>
    ELSE IF s[1] = Space THEN FirstWord(Tail(s))
    ELSE LET n == CHOOSE k \in 1..Len(s) :
                      /\ \A i \in 1..k : s[i] # Space
                      /\ k = Len(s) \/ s[k + 1] = Space
         IN  SubSeq(s, 1, n)

\* is_background_editor: "cursor" | "code" | "subl" | "atom"
is_background_editor(editor) ==
    editor \in {<<99, 117, 114, 115, 111, 114>>, EditorCode,
                <<115, 117, 98, 108>>, <<97, 116, 111, 109>>}

\* The projects open_project is called with.
OpenProjects ==
    {new_local(<<1>>, <<1>>), new_cursor(<<1>>, <<1>>),
     new_github(<<1>>, <<1>>, <<7>>), new_gitlab(<<1>>, <<1>>, <<7>>),
     [new_github(<<1>>, <<1>>, <<7>>) EXCEPT !.github_url = None],
     [new_gitlab(<<1>>, <<1>>, <<7>>) EXCEPT !.gitlab_url = None]}

\* open_project has returned: Ok, or the error named.
OpenReturn(o, error) ==
    [o EXCEPT !.pc = "done", !.result = IF error = "none" THEN "Ok" ELSE "Err",
              !.error = error]

\* The condition under which open_project clones first.
needs_clone(project, path_exists) == project.source = "GitHub" /\ ~path_exists

\* open_project, up to the decision to clone
OpenProject(project, editor_command, path_exists) ==
    /\ opener.pc = "idle"
    /\ opener' = [opener EXCEPT !.pc = IF needs_clone(project, path_exists)
                                       THEN "clone" ELSE "open_path",
                                !.project = project, !.editor_command = editor_command,
                                !.path_exists = path_exists, !.existed = path_exists]
    /\ UNCHANGED <<modelVars, cacheVars, scanVars, refreshVars, ghVars, invalVars, callVars, localVars, tuiVars>>

\* clone_github_project: a project without github_url is an error.
CloneGithubProject ==
    /\ opener.pc = "clone"
    /\ opener' = IF IsSome(opener.project.github_url)
                 THEN [opener EXCEPT !.pc = "create_dir_all"]
                 ELSE OpenReturn(opener, "GitHub project missing URL")
    /\ UNCHANGED <<modelVars, cacheVars, scanVars, refreshVars, ghVars, invalVars, callVars, localVars, tuiVars>>

\* std::fs::create_dir_all(parent)?
CreateDirAll(ok) ==
    /\ opener.pc = "create_dir_all"
    /\ opener' = IF ok THEN [opener EXCEPT !.pc = "git_clone"] ELSE OpenReturn(opener, "Failed to create directory")
    /\ UNCHANGED <<modelVars, cacheVars, scanVars, refreshVars, ghVars, invalVars, callVars, localVars, tuiVars>>

\* git clone <url> <path>: it fails to run, exits with a failure, or has
\* made the directory.
GitCloneOutcomes == {"failed_to_run", "failure", "success"}

GitClone(outcome) ==
    /\ opener.pc = "git_clone"
    /\ opener' = IF outcome = "success"
                 THEN [opener EXCEPT !.pc = "open_path", !.clone = "cloned",
                                     !.cloned_from = opener.project.github_url,
                                     !.path_exists = TRUE]
                 ELSE OpenReturn([opener EXCEPT !.clone = "failed"],
                                 IF outcome = "failure" THEN "Git clone failed"
                                 ELSE "Failed to execute git clone command")
    /\ UNCHANGED <<modelVars, cacheVars, scanVars, refreshVars, ghVars, invalVars, callVars, localVars, tuiVars>>

\* open_project_path: the editor is launched with spawn (a background
\* editor) or run with output; it may fail to start, and one that was run
\* may exit with a failure.
LaunchOutcomes == {"failed_to_start", "failure", "success"}

OpenProjectPath(outcome) ==
    /\ opener.pc = "open_path"
    /\ opener' =
         IF TrimIsEmpty(opener.editor_command)
         THEN OpenReturn(opener, "Editor command is empty")
         ELSE IF ~opener.path_exists
         THEN OpenReturn(opener, "Project path does not exist")
         ELSE IF outcome = "failed_to_start"
         THEN OpenReturn(opener, "Failed to launch editor")
         ELSE IF is_background_editor(FirstWord(opener.editor_command))
         THEN OpenReturn([opener EXCEPT !.launched = TRUE], "none")
         ELSE OpenReturn([opener EXCEPT !.launched = TRUE],
                         IF outcome = "success" THEN "none" ELSE "Editor command failed")
    /\ UNCHANGED <<modelVars, cacheVars, scanVars, refreshVars, ghVars, invalVars, callVars, localVars, tuiVars>>

\* ------------------------------------------------- SpecOpen: open_project
InitOpen == InitModels

NextOpen ==
    \/ \E project \in OpenProjects, editor_command \in EditorCommands, path_exists \in BOOLEAN :
          OpenProject(project, editor_command, path_exists)
    \/ CloneGithubProject
    \/ \E ok \in BOOLEAN : CreateDirAll(ok)
    \/ \E outcome \in GitCloneOutcomes : GitClone(outcome)
    \/ \E outcome \in LaunchOutcomes : OpenProjectPath(outcome)

SpecOpen == InitOpen /\ [][NextOpen]_vars

\* ================================================================== TuiApp
\* The picker of tui.rs. Only the names of the projects matter to it.
LetterQ == 113
take_limit == 20

TuiChars == {1, 2, LetterQ}
TuiNames == {<<1>>, <<2>>, <<1, 2>>}

\* The lists the picker is started with: short lists of every make-up, and
\* one list that is longer than the picker shows.
TuiLists ==
    UNION {[1..n -> {new_local(name, <<1>>) : name \in TuiNames}] : n \in 0..MaxProjects}
        \cup {[i \in 1..(take_limit + 1) |-> new_local(<<1>>, <<1>>)]}

\* The pattern's characters occur in the name in this order.
RECURSIVE IsSubsequence(_, _)
IsSubsequence(pattern, name) ==
    IF pattern = <<>> THEN TRUE
    ELSE IF name = <<>> THEN FALSE
    ELSE IF pattern[1] = name[1] THEN IsSubsequence(Tail(pattern), Tail(name))
    ELSE IsSubsequence(pattern, Tail(name))

\* SkimMatcherV2::fuzzy_match: None when the pattern does not match, else a
\* score; of the score only this is kept, that a closer match scores higher.
fuzzy_match(name, pattern) ==
    IF IsSubsequence(pattern, name) THEN Some(100 + Len(pattern) - Len(name)) ELSE None

\* Iterator::take
Take(s, n) == SubSeq(s, 1, IF Len(s) < n THEN Len(s) ELSE n)

\* scored.sort_by(|a, b| b.1.cmp(&a.1)): stable, highest score first.
RECURSIVE InsertByScore(_, _)
InsertByScore(sorted, x) ==
    IF sorted = <<>> THEN <<x>>
    ELSE IF x[2] > sorted[1][2] THEN <<x>> \o sorted
    ELSE <<sorted[1]>> \o InsertByScore(Tail(sorted), x)

RECURSIVE SortByScore(_, _)
SortByScore(sorted, rest) ==
    IF rest = <<>> THEN sorted
    ELSE SortByScore(InsertByScore(sorted, rest[1]), Tail(rest))

\* The (index, score) pairs of the projects that match, in list order.
RECURSIVE Scored(_, _, _)
Scored(projects, pattern, i) ==
    IF i > Len(projects) THEN <<>>
    ELSE (IF IsSome(fuzzy_match(projects[i].name, pattern))
          THEN <<<<i - 1, Unwrap(fuzzy_match(projects[i].name, pattern))>>>>
          ELSE <<>>) \o Scored(projects, pattern, i + 1)

\* update_filtered_projects
update_filtered_projects(app) ==
    LET filtered ==
            IF app.input = <<>>
            THEN Take([i \in 1..Len(app.projects) |-> <<i - 1, 100>>], take_limit)
            ELSE Take(SortByScore(<<>>, Scored(app.projects, app.input, 1)), take_limit)
    IN  [app EXCEPT !.filtered_projects = filtered,
                    !.selected_index = IF @ >= Len(filtered) THEN 0 ELSE @]

\* move_selection_up
move_selection_up(app) ==
    IF app.selected_index > 0 THEN [app EXCEPT !.selected_index = @ - 1] ELSE app

\* The selection moves down whatever the number of entries.
move_selection_down_Unchecked(app) == [app EXCEPT !.selected_index = @ + 1]

\* move_selection_down
move_selection_down(app) ==
    IF app.selected_index + 1 < Len(app.filtered_projects)
    THEN [app EXCEPT !.selected_index = @ + 1]
    ELSE app

\* get_selected_project
get_selected_project(app) ==
    IF app.selected_index < Len(app.filtered_projects)
    THEN Some(app.projects[app.filtered_projects[app.selected_index + 1][1] + 1])
    ELSE None

\* The end of one turn of the loop: with should_quit the loop is left and
\* run_interactive returns Ok(selected_project).
EndOfTurn(app, key) ==
    IF app.should_quit
    THEN [app EXCEPT !.pc = "done", !.result = "Ok", !.key = key]
    ELSE [app EXCEPT !.key = key]

\* run_interactive: TuiApp::new
TuiNew(projects) ==
    /\ tui.pc = "idle"
    /\ tui' = update_filtered_projects([tui EXCEPT !.pc = "loop", !.projects = projects])
    /\ UNCHANGED <<modelVars, cacheVars, scanVars, refreshVars, ghVars, invalVars, callVars, localVars, openerVars>>

\* terminal.draw or event::read fails: the error leaves run_interactive.
TuiIoError ==
    /\ tui.pc = "loop"
    /\ tui' = [tui EXCEPT !.pc = "done", !.result = "Err"]
    /\ UNCHANGED <<modelVars, cacheVars, scanVars, refreshVars, ghVars, invalVars, callVars, localVars, openerVars>>

\* KeyCode::Char('q') and KeyCode::Esc
KeyQuit ==
    /\ tui.pc = "loop"
    /\ tui' = EndOfTurn([tui EXCEPT !.should_quit = TRUE], "Quit")
    /\ UNCHANGED <<modelVars, cacheVars, scanVars, refreshVars, ghVars, invalVars, callVars, localVars, openerVars>>

\* KeyCode::Enter
KeyEnter ==
    /\ tui.pc = "loop"
    /\ tui' = EndOfTurn(IF IsSome(get_selected_project(tui))
                        THEN [tui EXCEPT !.selected_project = get_selected_project(tui),
                                         !.should_quit = TRUE]
                        ELSE tui, "Enter")
    /\ UNCHANGED <<modelVars, cacheVars, scanVars, refreshVars, ghVars, invalVars, callVars, localVars, openerVars>>

\* KeyCode::Char(c): 'q' is taken by the arm above it.
KeyChar(c) ==
    /\ tui.pc = "loop"
    /\ c = LetterQ \/ Len(tui.input) < MaxInput
    /\ tui' = IF c = LetterQ
              THEN EndOfTurn([tui EXCEPT !.should_quit = TRUE], "Quit")
              ELSE EndOfTurn([update_filtered_projects([tui EXCEPT !.input = Append(@, c)])
                                 EXCEPT !.selected_index = 0], "Char")
    /\ UNCHANGED <<modelVars, cacheVars, scanVars, refreshVars, ghVars, invalVars, callVars, localVars, openerVars>>

\* KeyCode::Backspace: String::pop on an empty input does nothing.
KeyBackspace ==
    /\ tui.pc = "loop"
    /\ tui' = EndOfTurn([update_filtered_projects(
                            [tui EXCEPT !.input = SubSeq(@, 1, IF Len(@) = 0 THEN 0 ELSE Len(@) - 1)])
                            EXCEPT !.selected_index = 0], "Backspace")
    /\ UNCHANGED <<modelVars, cacheVars, scanVars, refreshVars, ghVars, invalVars, callVars, localVars, openerVars>>

\* KeyCode::Up
KeyUp ==
    /\ tui.pc = "loop"
    /\ tui' = EndOfTurn(move_selection_up(tui), "Up")
    /\ UNCHANGED <<modelVars, cacheVars, scanVars, refreshVars, ghVars, invalVars, callVars, localVars, openerVars>>

\* KeyCode::Down
KeyDown ==
    /\ tui.pc = "loop"
    /\ tui' = EndOfTurn(move_selection_down(tui), "Down")
    /\ UNCHANGED <<modelVars, cacheVars, scanVars, refreshVars, ghVars, invalVars, callVars, localVars, openerVars>>

\* ------------------------------------------------ SpecTui: run_interactive
InitTui == InitModels

NextTui ==
    \/ \E projects \in TuiLists : TuiNew(projects)
    \/ TuiIoError
    \/ KeyQuit
    \/ KeyEnter
    \/ \E c \in TuiChars : KeyChar(c)
    \/ KeyBackspace
    \/ KeyUp
    \/ KeyDown

SpecTui == InitTui /\ [][NextTui]_vars

\* ------------------------------------------------------------------- claims
\* The contents a reader may find: the previous content, or all the bytes of
\* one save.
CompleteContents ==
    {Serialize(InitialList)} \cup {writer[w].data : w \in {v \in Writers : writer[v].pc # "idle"}}

\* C1: under concurrent save_projects calls the target cache file is at every
\* moment absent, the complete previous content, or the complete bytes of
\* exactly one save (never truncated or interleaved bytes).
C1_TargetAlwaysComplete ==
    ProjectsCache \in DOMAIN dir => dir[ProjectsCache].data \in CompleteContents

\* The target cache file as a reader finds it: absent, or its bytes.
TargetFile == IF ProjectsCache \in DOMAIN dir THEN <<dir[ProjectsCache].data>> ELSE <<>>

\* The step in which a write attempt of w fails or its process crashes.
FailureStep(w) ==
    /\ writer[w].pc \in {"create", "write", "sync", "rename"}
    /\ \/ writer'[w].pc \in {"sleep", "crashed"}
       \/ writer'[w].pc = "done" /\ writer'[w].result = "Err"

\* C2: a write attempt that fails at any step (temp-file creation, write, sync,
\* rename), or a crash, leaves the existing cache file with exactly its
\* previous content.
C2_FailureLeavesTargetIntact ==
    [][\A w \in Writers : FailureStep(w) => TargetFile' = TargetFile]_vars

\* The results that count in a scan: those of the joined threads, or those
\* of the scanners scanned in the calling thread.
Contributions ==
    IF scan.path = "join"
    THEN [k \in DOMAIN handles |->
            IF handles[k].state = "finished" THEN handles[k].result ELSE ScanErr]
    ELSE scan.seq

\* The projects of the Ok results, in order.
RECURSIVE MergeOk(_)
MergeOk(rs) ==
    IF rs = <<>> THEN <<>>
    ELSE (IF Head(rs).ok THEN Head(rs).projects ELSE <<>>) \o MergeOk(Tail(rs))

\* C3: whichever scanners return an error (all of them included),
\* scan_all_verbose returns Ok, every scanner has run to completion, and the
\* result is the deduplicated, sorted merge of exactly the projects of the
\* scanners that succeeded.
C3_FailuresAreTolerated ==
    (scan.pc = "done" /\ scan.result # "Panic") =>
        /\ scan.result = "Ok"
        /\ Len(Contributions) = Len(scanners)
        /\ scan.path = "join" => \A k \in DOMAIN handles : handles[k].state # "running"
        /\ scan.all_projects = sort_by_last_modified(deduplicate(MergeOk(Contributions)))

C3_Witness ==
    /\ scan.pc = "done"
    /\ scan.path = "join"
    /\ scan.result = "Ok"
    /\ \E k \in DOMAIN handles : handles[k].state = "finished" /\ ~handles[k].result.ok
    /\ Len(scan.all_projects) = 3
    /\ scan.all_projects # MergeOk(Contributions)

\* C4: after deduplicate no GitHub or GitLab entry remains on a path that a
\* Local entry claims, and the Local entries are still present.
C4_NoRemoteOnLocalPath ==
    lastOp = "deduplicate" =>
        /\ \A i, j \in DOMAIN plist :
                (plist[i].source = "Local" /\ plist[j].source \in {"GitHub", "GitLab"})
                    => plist[i].path # plist[j].path
        /\ \A i \in DOMAIN prev :
                prev[i].source = "Local" => \E j \in DOMAIN plist : plist[j] = prev[i]

C6_ValidIffAgeBelowTtl ==
    (reader.op = "is_cache_valid" /\ reader.pc = "done") =>
        IF ~reader.existed THEN reader.valid = "false"
        ELSE /\ reader.valid \in {"true", "false"}
             /\ reader.valid = "true" <=>
                    reader.read_now - reader.read_mtime < ttl_seconds * TicksPerSec

\* C7: with a modification time later than the clock reading is_cache_valid
\* does not panic or overflow and reports the cache as invalid.
C7_FutureMtimeIsInvalid ==
    (reader.op = "is_cache_valid" /\ reader.pc = "done" /\ reader.existed
        /\ reader.read_mtime > reader.read_now) => reader.valid = "false"

\* C8: a cache file is valid immediately after a successful save_projects:
\* is_cache_valid, called at the instant save_projects returned on a file
\* written less than the TTL before, is true.
C8_ValidRightAfterSave ==
    (reader.op = "is_cache_valid" /\ reader.pc = "done" /\ "w1" \in reader.after_save
        /\ reader.read_now = writer["w1"].returned_at
        /\ reader.read_now - reader.read_mtime \in 0..(ttl_seconds * TicksPerSec - 1))
            => reader.valid = "true"

RECURSIVE StrictlyIncreasing(_)
StrictlyIncreasing(q) ==
    Len(q) < 2 \/ (q[1] < q[2] /\ StrictlyIncreasing(Tail(q)))

\* C10 as stated: save_projects returns an error if and only if all 3 write
\* attempts fail.
C10_ErrorIffThreeAttemptsFail ==
    \A w \in Writers :
        writer[w].pc = "done" =>
            (writer[w].result # "Ok" <=> writer[w].calls = 3)

\* C10, amended: at most 3 attempts, each with a temporary file of its own;
\* Ok at the first attempt that succeeds; an
\* error if and only if the list does not serialize (no attempt is made
\* then) or all 3 attempts fail; a strictly increasing wait between
\* consecutive attempts and none after the last.
C10_RetryLoop ==
    \A w \in Writers :
        /\ writer[w].calls <= 3
        /\ Len(writer[w].temps) = writer[w].calls
        /\ \A i, j \in DOMAIN writer[w].temps :
                i # j => writer[w].temps[i] # writer[w].temps[j]
        /\ StrictlyIncreasing(writer[w].slept)
        /\ writer[w].pc \in {"create", "write", "sync", "rename"} =>
                Len(writer[w].slept) = writer[w].attempt
        /\ writer[w].pc = "done" =>
            /\ writer[w].result \in {"Ok", "Err", "ErrSerialize"}
            /\ writer[w].result = "ErrSerialize" <=> ~Serializable(writer[w].projects)
            /\ writer[w].result = "ErrSerialize" => writer[w].calls = 0
            /\ writer[w].result = "Err" => writer[w].calls = 3
            /\ writer[w].result = "Ok" => writer[w].calls = writer[w].attempt + 1
            /\ writer[w].result # "ErrSerialize" =>
                    Len(writer[w].slept) = writer[w].calls - 1

C10_Witness ==
    \E w \in Writers :
        /\ writer[w].pc = "done"
        /\ writer[w].result = "Err"
        /\ writer[w].calls = 3
        /\ writer[w].slept = <<1, 2>>

\* A write attempt of w is in progress: its temporary file is named and the
\* attempt has neither failed nor renamed it.
AttemptInProgress(w) == writer[w].pc \in {"write", "sync", "rename"}

\* C11: two write attempts in progress at the same time on the same cache
\* key, in different processes or in threads of one process, never use the
\* same temporary file name.
C11_TempNamesDiffer ==
    \A v, w \in Writers :
        (v # w /\ AttemptInProgress(v) /\ AttemptInProgress(w))
            => writer[v].temp_path # writer[w].temp_path

\* The temporary files in the cache directory.
TempFiles == DOMAIN dir \ {ProjectsCache}

\* C12: once every save_projects call has returned, with success or with an
\* error at any step, no temporary file of those calls is left in the cache
\* directory.
C12_NoTempFilesRemain ==
    (\A w \in Writers : writer[w].pc \in {"idle", "done"}) => TempFiles = {}

\* C13: get_projects_with_background_refresh returns the list stored in the
\* cache file, stale or not, and the empty list only when no cache file
\* exists (or the stored list is empty).
C13_ReturnsStoredList ==
    (refresh.pc = "done" /\ refresh.result = "Ok") =>
        IF refresh.stored = <<>> THEN refresh.list = <<>>
        ELSE Deserialize(refresh.stored[1]).ok =>
                refresh.list = Deserialize(refresh.stored[1]).val

\* The cache was found stale during the call: is_cache_valid returned false.
FoundStale == \E i \in DOMAIN refresh.verdicts : refresh.verdicts[i] = "false"

C15_FailedRefreshSendsNothing ==
    /\ Len(refresh.received) + Len(chan.queue) <= 1
    /\ bg.pc # "none" => (refresh.pc = "done" /\ refresh.result = "Ok")
    /\ bg.pc = "done" =>
        /\ chan.senders = 0
        /\ bg.result = "Err" <=> writer[BgWriter].result # "Ok"
        /\ bg.result = "Err" => (refresh.received = <<>> /\ chan.queue = <<>>)
        /\ bg.result = "Ok" =>
                refresh.received \o chan.queue = <<writer[BgWriter].projects>>
    /\ refresh.seen = "disconnected" => (bg.pc = "done" /\ chan.queue = <<>>)

C15_Witness ==
    /\ bg.pc = "done"
    /\ bg.result = "Err"
    /\ writer[BgWriter].calls = 3
    /\ refresh.seen = "disconnected"
    /\ refresh.received = <<>>

\* C16: scan_all_verbose does not return while a scanner thread it spawned
\* is still running: every spawned thread has been joined before the result
\* is returned, whatever scanners the manager holds.
C16_AllJoinedAtReturn ==
    (scan.pc = "done" /\ scan.result = "Ok") =>
        \A k \in DOMAIN handles : handles[k].joined /\ handles[k].state # "running"

\* C17: the list scan_all_verbose builds depends only on the lists the
\* scanners return, not on the order in which the threads complete: the Ok
\* results are appended in declaration order (local, cursor, github), and the
\* returned list is that merge deduplicated and sorted (stably: ties stay in
\* source order).
C17_DeclarationOrder ==
    scan.path = "join" =>
        IF scan.pc = "done"
        THEN scan.all_projects = sort_by_last_modified(deduplicate(MergeOk(Contributions)))
        ELSE scan.all_projects = MergeOk(SubSeq(Contributions, 1, scan.i - 1))

\* Threads completed in the reverse of declaration order, and two entries
\* that tie under the sort rule are in the list in source order.
C17_Witness ==
    /\ scan.pc = "done"
    /\ scan.path = "join"
    /\ Len(handles) = 3
    /\ handles[3].order < handles[2].order
    /\ handles[2].order < handles[1].order
    /\ \E i \in DOMAIN scan.all_projects :
            /\ i + 1 \in DOMAIN scan.all_projects
            /\ scan.all_projects[i].source = "Local"
            /\ scan.all_projects[i + 1].source = "Cursor"
            /\ SortCmp(scan.all_projects[i], scan.all_projects[i + 1]) = 0

\* The thread results with a panicked thread taken for a returned failure.
PanicAsFailure ==
    [k \in DOMAIN handles |->
        IF handles[k].state = "panicked" THEN ScanErr ELSE handles[k].result]

\* C18: a scanner thread that panics is caught at join and contributes no
\* projects, like a returned failure: scan_all_verbose returns Ok with the
\* merged projects of the other scanners.
C18_PanicIsCaughtAtJoin ==
    (scan.path = "join" /\ scan.pc = "done") =>
        /\ scan.result = "Ok"
        /\ \A k \in DOMAIN handles : handles[k].state = "panicked" => handles[k].joined
        /\ scan.all_projects = sort_by_last_modified(deduplicate(MergeOk(PanicAsFailure)))

C18_Witness ==
    /\ scan.pc = "done"
    /\ scan.path = "join"
    /\ scan.result = "Ok"
    /\ \E k \in DOMAIN handles : handles[k].state = "panicked"
    /\ Len(scan.all_projects) = 2

\* How often x occurs in a list.
Count(list, x) == Cardinality({i \in DOMAIN list : list[i] = x})

\* C19: sort_by_last_modified yields a permutation of its input in which
\* every entry with a timestamp precedes every entry without one, the entries
\* with timestamps are in descending timestamp order, and the entries without
\* are in ascending name order.
C19_SortedPermutation ==
    lastOp = "sort_by_last_modified" =>
        /\ Len(plist) = Len(prev)
        /\ \A i \in DOMAIN prev : Count(plist, prev[i]) = Count(prev, prev[i])
        /\ \A i, j \in DOMAIN plist :
                i < j =>
                    /\ IsSome(plist[j].last_modified) => IsSome(plist[i].last_modified)
                    /\ (IsSome(plist[i].last_modified) /\ IsSome(plist[j].last_modified)) =>
                            Unwrap(plist[i].last_modified) >= Unwrap(plist[j].last_modified)
                    /\ (~IsSome(plist[i].last_modified) /\ ~IsSome(plist[j].last_modified)) =>
                            StrCmp(plist[i].name, plist[j].name) <= 0

\* A list of three in the worst order: no timestamp, the older, the newer.
C19_Witness ==
    /\ lastOp = "sort_by_last_modified"
    /\ Len(prev) = 3
    /\ prev[1].last_modified = None
    /\ prev[2].last_modified = Some(1)
    /\ prev[3].last_modified = Some(2)
    /\ plist = <<prev[3], prev[2], prev[1]>>

\* a orders before b.
Before(a, b) == SortCmp(a, b) < 0

\* Two projects have the same sort key: equal timestamps, or no timestamps
\* and equal names.
SameKey(a, b) ==
    \/ IsSome(a.last_modified) /\ IsSome(b.last_modified)
            /\ Unwrap(a.last_modified) = Unwrap(b.last_modified)
    \/ ~IsSome(a.last_modified) /\ ~IsSome(b.last_modified) /\ a.name = b.name

\* C20 as stated: the ordering used by sort_by_last_modified is a strict
\* total order: transitive, and of two distinct projects exactly one orders
\* before the other.
C20_StrictTotalOrder ==
    lastOp = "sort_by_last_modified" =>
        \A i, j, k \in DOMAIN prev :
            /\ (Before(prev[i], prev[j]) /\ Before(prev[j], prev[k])) => Before(prev[i], prev[k])
            /\ prev[i] # prev[j] => (Before(prev[i], prev[j]) <=> ~Before(prev[j], prev[i]))

\* C20, amended: the ordering is a strict weak order: no project orders
\* before itself, comparing the other way round gives the opposite answer,
\* ordering before is transitive and so is comparing Equal, and two projects
\* compare Equal exactly when they have the same sort key; of two projects
\* with different keys exactly one orders before the other.
C20_StrictWeakOrder ==
    lastOp = "sort_by_last_modified" =>
        \A i, j, k \in DOMAIN prev :
            /\ ~Before(prev[i], prev[i])
            /\ SortCmp(prev[i], prev[j]) = 0 - SortCmp(prev[j], prev[i])
            /\ (Before(prev[i], prev[j]) /\ Before(prev[j], prev[k])) => Before(prev[i], prev[k])
            /\ (SortCmp(prev[i], prev[j]) = 0 /\ SortCmp(prev[j], prev[k]) = 0)
                    => SortCmp(prev[i], prev[k]) = 0
            /\ SortCmp(prev[i], prev[j]) = 0 <=> SameKey(prev[i], prev[j])
            /\ ~SameKey(prev[i], prev[j]) =>
                    (Before(prev[i], prev[j]) <=> ~Before(prev[j], prev[i]))

\* Two distinct projects that tie have been sorted, with a third that does not.
C20_Witness ==
    /\ lastOp = "sort_by_last_modified"
    /\ Len(prev) = 3
    /\ prev[1] # prev[2]
    /\ SortCmp(prev[1], prev[2]) = 0
    /\ Before(prev[3], prev[1])
    /\ plist = <<prev[3], prev[1], prev[2]>>

\* C21: deduplicate is idempotent: applying it again to its own result gives
\* the same list.
C21_DeduplicateIdempotent ==
    lastOp = "deduplicate" => deduplicate(plist) = plist

\* A list of three lost its GitHub entry on the Local path and kept the one
\* on the other path.
C21_Witness ==
    /\ lastOp = "deduplicate"
    /\ Len(prev) = 3
    /\ Len(plist) = 2
    /\ plist[1].source = "Local"
    /\ plist[2].source = "GitHub"

\* No GitHub entry is on a path of a Local entry.
IsDeduplicated(list) ==
    \A i, j \in DOMAIN list :
        (list[i].source = "Local" /\ list[j].source = "GitHub") => list[i].path # list[j].path

\* Timestamps first and descending, then the rest by ascending name.
IsSorted(list) ==
    \A i, j \in DOMAIN list :
        i < j =>
            /\ IsSome(list[j].last_modified) => IsSome(list[i].last_modified)
            /\ (IsSome(list[i].last_modified) /\ IsSome(list[j].last_modified)) =>
                    Unwrap(list[i].last_modified) >= Unwrap(list[j].last_modified)
            /\ (~IsSome(list[i].last_modified) /\ ~IsSome(list[j].last_modified)) =>
                    StrCmp(list[i].name, list[j].name) <= 0

\* C22: the merge step (deduplicate, then sort_by_last_modified) applied to a
\* list that is already deduplicated and sorted leaves it unchanged, element
\* for element.
C22_MergeIdempotent ==
    [][(lastOp' = "merge" /\ IsDeduplicated(plist) /\ IsSorted(plist)) => plist' = plist]_vars

\* The merge step has run on a merged list of three that holds entries that
\* tie and a GitHub entry next to a Local one.
C22_Witness ==
    /\ lastOp = "merge"
    /\ prev = plist
    /\ Len(plist) = 3
    /\ plist[1].source = "GitHub" /\ IsSome(plist[1].last_modified)
    /\ plist[2].source = "Local" /\ IsSome(plist[2].last_modified)
    /\ plist[3].source = "Cursor" /\ ~IsSome(plist[3].last_modified)

\* C23: a gh subprocess of scan (the authentication check, the repository
\* fetch) that never exits is killed once the timeout has passed, and scan
\* returns the empty list or an error within the timeout plus one polling
\* interval.
C23_HungChildIsKilled ==
    gh.child.run = Never =>
        /\ gh.child.state = "running" => gh.child.age <= TimeoutPolls + 1
        /\ gh.child.age = TimeoutPolls + 1 => gh.pc \in {"try_wait", "done"}
        /\ gh.pc = "done" => gh.child.state = "killed" /\ gh.projects = <<>>

\* C24: scan returns Ok with the empty list, never an error, when no username
\* is configured, gh is not installed, gh is not authenticated, or the
\* installation or authentication check fails to run.
C24_DegradesToEmpty ==
    gh.case \in {"no_username", "not_installed", "not_authenticated", "auth_failed_to_run"}
        => gh.result = "Ok" /\ gh.projects = <<>>

\* C25: invalidate_all returns Ok whether or not either cache file exists
\* (it fails only when a removal itself fails), and after it has returned Ok
\* neither the projects cache file nor the GitHub cache file exists, so that
\* until the next save is_cache_valid is false for both and a load returns
\* None.
C25_InvalidateAll ==
    \A k \in Invokers :
        inval[k].pc = "done" =>
            /\ inval[k].result = "Ok" \/ inval[k].failed_io
            /\ inval[k].result = "Ok" =>
                /\ \A i \in DOMAIN CachePaths : CachePaths[i] \notin DOMAIN dir
                /\ \A i \in DOMAIN CachePaths, overflow_checks \in BOOLEAN :
                        is_cache_valid(CachePaths[i] \in DOMAIN dir, 0, now, ttl_seconds,
                                       overflow_checks) = "false"
                /\ (reader.pc = "done" /\ reader.read_now > inval[k].at) =>
                        /\ reader.op = "load_projects" => reader.result = "OkNone"
                        /\ reader.op = "is_cache_valid" => reader.valid = "false"

\* Both files were there and are removed, and a later load_projects found
\* nothing.
C25_Witness ==
    /\ inval["i1"].pc = "done"
    /\ inval["i1"].result = "Ok"
    /\ inval["i1"].removed = {ProjectsCache, GithubCache}
    /\ reader.pc = "done"
    /\ reader.op = "load_projects"
    /\ reader.read_now > inval["i1"].at
    /\ reader.result = "OkNone"

\* C26: load_projects returns Ok(None), not an error, when the cache file
\* cannot be read, also when it passed the validity check and was removed by
\* a concurrent invalidate_all before the read.
C26_UnreadableIsNone ==
    (reader.pc = "done" /\ reader.op = "load_projects"
        /\ reader.valid = "true" /\ ~reader.read_ok)
            => reader.result = "OkNone"

HasOriginUrl(p) ==
    /\ p.source = "GitHub" => IsSome(p.github_url) /\ Unwrap(p.github_url) # <<>>
    /\ p.source = "GitLab" => IsSome(p.gitlab_url) /\ Unwrap(p.gitlab_url) # <<>>

Returned(d) ==
    \E i \in DOMAIN local.projects : local.projects[i].path = PathAt(local.tree, d)

\* C30: the local scanner returns a directory as a project if and only if it
\* lies within depth 3 of the root, holds a .git entry, and is neither a
\* hidden directory nor below one; a root that does not exist gives no
\* projects and no error.
C30_ProjectIffGitWithinDepth ==
    local.pc = "done" =>
        /\ local.result = "Ok"
        /\ ~local.tree.exists => local.projects = <<>>
        /\ local.tree.exists =>
                \A d \in 0..Len(local.tree.chain) :
                    Returned(d) <=>
                        /\ d <= max_depth
                        /\ d \in local.tree.git
                        /\ ~is_hidden_directory(FileName(local.tree, d))
                        /\ \A a \in 1..(d - 1) : ~is_hidden_directory(local.tree.chain[a])

\* The origin URL of a remote-hosted project.
OriginUrl(project) ==
    IF project.source = "GitHub" THEN project.github_url ELSE project.gitlab_url

\* C31: open_project on a remote-hosted project (GitHub or GitLab) whose path
\* does not exist locally clones the repository from its origin URL before
\* the editor is launched; with the URL missing or the clone failing the
\* editor is never launched and the call returns an error.
C31_ClonesBeforeLaunch ==
    (/\ opener.pc = "done"
     /\ opener.project.source \in {"GitHub", "GitLab"}
     /\ ~opener.existed) =>
        /\ opener.launched =>
              opener.clone = "cloned" /\ opener.cloned_from = OriginUrl(opener.project)
        /\ (IsSome(OriginUrl(opener.project)) /\ opener.clone = "none") =>
              opener.error = "Failed to create directory"
        /\ opener.clone # "cloned" => ~opener.launched /\ opener.result = "Err"

\* C32: scan_all_verbose has no timeout of its own: it does not return for
\* as long as one scanner task it dispatched has not finished (by returning,
\* failing or panicking), and returns once they all have.
C32_WaitsForEveryTask ==
    scan.pc = "done" => \A k \in DOMAIN handles : handles[k].state # "running"

\* The lists the handle has yielded or holds.
Yielded == {refresh.received[i] : i \in DOMAIN refresh.received}
              \cup {chan.queue[i] : i \in DOMAIN chan.queue}

\* C33: in a background refresh the save has completed successfully before
\* the refreshed list is sent: whenever the handle yields a list L, the
\* save_projects call of that background run has returned Ok and its rename
\* has put the bytes of L in place of the cache file.
C33_SavedBeforeSent ==
    \A L \in Yielded :
        /\ writer[BgWriter].pc = "done"
        /\ writer[BgWriter].result = "Ok"
        /\ writer[BgWriter].projects = L
        /\ ProjectsCache \in DOMAIN dir
        /\ dir[ProjectsCache].data = Serialize(L)

C33_Witness ==
    /\ Len(refresh.received) = 1
    /\ refresh.received[1] # <<>>
    /\ refresh.stored # <<>>
    /\ refresh.stored[1] # Serialize(refresh.received[1])
    /\ writer[BgWriter].calls > 1

\* How often the scan of the i-th held scanner is invoked in one call: by the
\* thread spawned for it, which scans by name when the name is a built-in
\* one, and by scan_all_sequential in the calling thread.
Invocations(i) ==
    (IF i \in DOMAIN handles /\ handles[i].name \in BuiltinNames THEN 1 ELSE 0)
        + (IF i \in DOMAIN scan.seq THEN 1 ELSE 0)

\* C34: during one scan_all_verbose call the scan of each scanner the manager
\* holds is invoked exactly once, and no other scan is invoked, whatever the
\* scanner set, sets that mix built-in names with other names included.
C34_EachScannerOnce ==
    (scan.pc = "done" /\ scan.result = "Ok") =>
        /\ \A i \in DOMAIN scanners : Invocations(i) = 1
        /\ DOMAIN handles \subseteq DOMAIN scanners
        /\ DOMAIN scan.seq \subseteq DOMAIN scanners

\* The projects cache file holds bytes that do not deserialize.
HoldsCorrupt(d) == ProjectsCache \in DOMAIN d /\ ~Deserialize(d[ProjectsCache].data).ok

ClaimedRemote(list) ==
    {i \in DOMAIN list :
        /\ list[i].source \in {"GitHub", "GitLab"}
        /\ \E j \in DOMAIN list : list[j].source = "Local" /\ list[j].path = list[i].path}

\* after is before with the entries at the positions gone removed and
\* nothing else changed.
IsWithout(after, before, gone) ==
    LET keep == DOMAIN before \ gone
        rank(i) == Cardinality({j \in keep : j <= i})
    IN  /\ Len(after) = Cardinality(keep)
        /\ \A i \in keep : after[rank(i)] = before[i]

\* C36: deduplicate removes only remote-hosted entries whose path a Local
\* entry claims: every other entry (Local, Cursor, remote on an unclaimed
\* path, repeated Local or Cursor entries on one path) remains, in its
\* original relative order and unmodified.
C36_RemovesOnlyClaimedRemote ==
    lastOp = "deduplicate" =>
        \E gone \in SUBSET ClaimedRemote(prev) : IsWithout(plist, prev, gone)

\* A Local, a Cursor and a GitHub entry on one path: the GitHub entry went,
\* the Cursor entry on the same path stayed.
C36_Witness ==
    /\ lastOp = "deduplicate"
    /\ Len(prev) = 3
    /\ prev[1].path = prev[2].path
    /\ prev[2].path = prev[3].path
    /\ prev[1].source = "Cursor"
    /\ prev[2].source = "GitHub"
    /\ prev[3].source = "Local"
    /\ plist = <<prev[1], prev[3]>>

\* C37: when two invocations run invalidate_all concurrently on one cache
\* directory both return Ok and both cache files end up absent: neither
\* fails because the other removed a file between its existence check and
\* its removal (an I/O failure of another kind set aside).
C37_ConcurrentInvalidateAll ==
    /\ \A k \in Invokers :
            (inval[k].pc = "done" /\ ~inval[k].failed_io) => inval[k].result = "Ok"
    /\ (\A k \in Invokers : inval[k].pc = "done" /\ inval[k].result = "Ok") =>
            DOMAIN dir = {}

\* C38: fetch_user_repositories_with_timeout does not time out on a gh
\* subprocess that would write all its output and exit successfully within
\* the timeout, however much output that is: the subprocess is not left
\* blocked on a full pipe until it is killed.
C38_NoTimeoutOnLargeOutput ==
    (/\ gh.pc = "done"
     /\ gh.child.kind = "fetch"
     /\ gh.child.ok
     /\ gh.child.run <= TimeoutPolls
     /\ \A i \in DOMAIN gh.child.out : gh.child.out[i].valid) =>
        gh.case # "timeout"

\* C39: after any sequence of key events in the picker selected_index is 0
\* or less than the number of filtered projects: Up does not take it below
\* 0, Down does not take it past the last filtered entry, and a key that
\* changes the search input (a character, Backspace) sets it to 0.
C39_SelectionInRange ==
    tui.pc # "idle" =>
        /\ tui.selected_index >= 0
        /\ tui.selected_index = 0 \/ tui.selected_index < Len(tui.filtered_projects)
        /\ tui.key \in {"Char", "Backspace"} => tui.selected_index = 0

\* Down was pressed on the last of several entries found by a search.
C39_Witness ==
    /\ tui.pc = "loop"
    /\ tui.key = "Down"
    /\ tui.input # <<>>
    /\ Len(tui.filtered_projects) = 2
    /\ Len(tui.projects) = 3
    /\ tui.selected_index = 1

====
